---- MODULE Spec2Model ----
(***************************************************************************)
(* RAG pipeline of rag-a-octai: the ingestion orchestrator                 *)
(* (RagDataIngestor.ingest), the query orchestrator (RagOrchestrator.query),*)
(* the file handlers and the ChromaVectorStore wrapper, run as tasks of one *)
(* single-threaded Node.js process.  A task runs without interruption      *)
(* between two awaits (variable cur names the task that holds the thread); *)
(* the completion of an awaited external call is an action of its own,     *)
(* whose outcome (a value or a thrown error) is chosen by the environment. *)
(***************************************************************************)
EXTENDS Integers, Sequences, FiniteSets, TLC

\* ---------------------------------------------------------------- bounds
MaxTasks == 2
MaxFiles == 2
MaxPages == 2
MaxChunks == 2
MaxTopK == 2
MaxDist == 2
MaxCalls == 2
MaxText == 5
MaxChunkSize == 3

Tasks == 1..MaxTasks

\* ---------------------------------------------------------------- data
Stores == {"ingestor", "orchestrator"}

FileSet ==
  { [originalname |-> "a.txt", mimetype |-> "text/plain"],
    [originalname |-> "b.pdf", mimetype |-> "application/pdf"],
    [originalname |-> "c.png", mimetype |-> "image/png"] }

\* what a text file may hold
Contents == {<<>>, <<"t">>}

PieceNames == <<"p1", "p2", "p3", "p4">>

Questions == {"q"}

Answers == {"", "ans"}

\* an optional number: <<>> is undefined, <<n>> is the number n
Thresholds == {<<>>} \cup {<<n>> : n \in 0..MaxDist}

MaxTokensSet == {<<>>, <<1000>>}

EmptyMeta == <<>>

\* {...a, ...b}: the keys of b override the keys of a
Merge(a, b) ==
  [k \in (DOMAIN a) \cup (DOMAIN b) |-> IF k \in DOMAIN b THEN b[k] ELSE a[k]]

\* all sequences over S of length 0..n
RECURSIVE SeqsUpTo(_, _)
SeqsUpTo(S, n) ==
  IF n = 0 THEN {<<>>}
  ELSE LET shorter == SeqsUpTo(S, n - 1)
       IN  shorter \cup {Append(s, x) : s \in {r \in shorter : Len(r) = n - 1}, x \in S}

Min(a, b) == IF a <= b THEN a ELSE b

\* ---------------------------------------------------------------- DefaultTextProcessor
\* A text is a sequence of characters.  The regular expressions of the processor are
\* written as sequences of nodes and matched by backtracking as the JavaScript engine
\* matches them: leftmost match, greedy quantifiers first, alternatives in order.
NL == "\n"

LineTerminators == {"\n", "\r"}

\* \s
WhiteSpace == {" ", "\t", "\n", "\r"}

\* \d
Digits == {"0", "1", "2", "3", "4", "5", "6", "7", "8", "9"}

\* [-–—]
Dashes == {"-", "endash", "emdash"}

Lower == <<"a", "b", "c", "d", "e", "f", "g", "h", "i", "j", "k", "l", "m",
           "n", "o", "p", "q", "r", "s", "t", "u", "v", "w", "x", "y", "z">>

Upper == <<"A", "B", "C", "D", "E", "F", "G", "H", "I", "J", "K", "L", "M",
           "N", "O", "P", "Q", "R", "S", "T", "U", "V", "W", "X", "Y", "Z">>

\* [A-Z] and [A-Za-z]
UpperLetters == {Upper[i] : i \in DOMAIN Upper}
Letters == UpperLetters \cup {Lower[i] : i \in DOMAIN Lower}

\* a character under the flag i: the character in both cases
BothCases(c) ==
  IF \E i \in DOMAIN Lower : c \in {Lower[i], Upper[i]}
    THEN LET i == CHOOSE i \in DOMAIN Lower : c \in {Lower[i], Upper[i]} IN {Lower[i], Upper[i]}
    ELSE {c}

\* the nodes of a regular expression
OneOf(chars) == [k |-> "set", chars |-> chars]
Dot == [k |-> "dot"]
Bol == [k |-> "bol"]
Eol == [k |-> "eol"]
Rep(sub, min, max) == [k |-> "rep", sub |-> sub, min |-> min, max |-> max, lazy |-> FALSE]
Lazy(sub, min, max) == [k |-> "rep", sub |-> sub, min |-> min, max |-> max, lazy |-> TRUE]
Star(sub) == Rep(sub, 0, -1)
Plus(sub) == Rep(sub, 1, -1)
AtLeast(sub, min) == Rep(sub, min, -1)
Opt(sub) == Rep(sub, 0, 1)
Group(i, sub) == [k |-> "grp", i |-> i, sub |-> sub]
Ref(i) == [k |-> "ref", i |-> i]
Alt(options) == [k |-> "alt", options |-> options]
Ahead(sub) == [k |-> "ahead", sub |-> sub]
NotAhead(sub) == [k |-> "nahead", sub |-> sub]
NotBehind(chars) == [k |-> "nbehind", chars |-> chars]

\* a literal word, and a literal word under the flag i
Word(w) == [i \in 1..Len(w) |-> OneOf({w[i]})]
WordI(w) == [i \in 1..Len(w) |-> OneOf(BothCases(w[i]))]

NoCaptures == <<<<>>, <<>>, <<>>>>

\* the match of the nodes at position p of text s (p is the index of the next character),
\* given the captures so far: <<>> when there is none, else <<[end, caps]>> of the first
\* match in the engine's order
RECURSIVE Match(_, _, _, _)
Match(s, nodes, p, caps) ==
  IF nodes = <<>> THEN <<[end |-> p, caps |-> caps]>>
  ELSE
    LET h == Head(nodes)
        rest == Tail(nodes)
    IN
    CASE h.k = "set" ->
           IF p <= Len(s) /\ s[p] \in h.chars THEN Match(s, rest, p + 1, caps) ELSE <<>>
      [] h.k = "dot" ->
           IF p <= Len(s) /\ s[p] \notin LineTerminators THEN Match(s, rest, p + 1, caps) ELSE <<>>
      [] h.k = "bol" ->
           IF p = 1 \/ s[p - 1] \in LineTerminators THEN Match(s, rest, p, caps) ELSE <<>>
      [] h.k = "eol" ->
           IF p = Len(s) + 1 \/ s[p] \in LineTerminators THEN Match(s, rest, p, caps) ELSE <<>>
      [] h.k = "rep" ->
           LET fewer == [h EXCEPT !.min = IF @ > 0 THEN @ - 1 ELSE 0,
                                  !.max = IF @ > 0 THEN @ - 1 ELSE @]
               more == Match(s, h.sub \o <<fewer>> \o rest, p, caps)
               stop == Match(s, rest, p, caps)
           IN  IF h.min > 0 THEN more
               ELSE IF h.max = 0 THEN stop
               ELSE IF h.lazy THEN (IF stop # <<>> THEN stop ELSE more)
               ELSE (IF more # <<>> THEN more ELSE stop)
      [] h.k = "grp" ->
           Match(s, h.sub \o <<[k |-> "close", i |-> h.i, from |-> p]>> \o rest, p, caps)
      [] h.k = "close" ->
           Match(s, rest, p, [caps EXCEPT ![h.i] = SubSeq(s, h.from, p - 1)])
      [] h.k = "ref" ->
           LET w == caps[h.i] IN
           IF p + Len(w) - 1 <= Len(s) /\ SubSeq(s, p, p + Len(w) - 1) = w
             THEN Match(s, rest, p + Len(w), caps) ELSE <<>>
      [] h.k = "alt" ->
           LET first == Match(s, Head(h.options) \o rest, p, caps) IN
           IF first # <<>> THEN first
           ELSE IF Len(h.options) = 1 THEN <<>>
           ELSE Match(s, <<Alt(Tail(h.options))>> \o rest, p, caps)
      [] h.k = "ahead" ->
           IF Match(s, h.sub, p, caps) # <<>> THEN Match(s, rest, p, caps) ELSE <<>>
      [] h.k = "nahead" ->
           IF Match(s, h.sub, p, caps) = <<>> THEN Match(s, rest, p, caps) ELSE <<>>
      [] h.k = "nbehind" ->
           IF p > 1 /\ s[p - 1] \in h.chars THEN <<>> ELSE Match(s, rest, p, caps)

\* the replacement text: with is a sequence of characters and of group numbers ($1)
RECURSIVE Expand(_, _)
Expand(with, caps) ==
  IF with = <<>> THEN <<>>
  ELSE (IF Head(with) \in {"$1", "$2", "$3"}
          THEN caps[CHOOSE i \in 1..3 : Head(with) = <<"$1", "$2", "$3">>[i]]
          ELSE <<Head(with)>>) \o Expand(Tail(with), caps)

\* text.replace(/re/g, with) from position p on: every match, left to right, not overlapping
RECURSIVE ReplaceFrom(_, _, _, _)
ReplaceFrom(s, re, with, p) ==
  IF p > Len(s) + 1 THEN <<>>
  ELSE
    LET m == Match(s, re, p, NoCaptures)
        copied == IF p <= Len(s) THEN <<s[p]>> \o ReplaceFrom(s, re, with, p + 1) ELSE <<>>
    IN  IF m = <<>> THEN copied
        ELSE IF m[1].end = p THEN Expand(with, m[1].caps) \o copied
        ELSE Expand(with, m[1].caps) \o ReplaceFrom(s, re, with, m[1].end)

Replace(s, re, with) == ReplaceFrom(s, re, with, 1)

Sp == OneOf(WhiteSpace)
Digit == OneOf(Digits)
Dash == OneOf(Dashes)
Period == OneOf({"."})

\* /\s+of\s+\d+/
OfTotal == <<Plus(<<Sp>>)>> \o Word(<<"o", "f">>) \o <<Plus(<<Sp>>), Plus(<<Digit>>)>>

removePageNumbers(text) ==
  LET \* /^\s*Page\s+\d+(\s+of\s+\d+)?\s*$/gim
      pageN == <<Bol, Star(<<Sp>>)>> \o WordI(<<"P", "a", "g", "e">>) \o
               <<Plus(<<Sp>>), Plus(<<Digit>>),
                 Opt(<<Group(1, <<Plus(<<Sp>>)>> \o WordI(<<"o", "f">>) \o
                                 <<Plus(<<Sp>>), Plus(<<Digit>>)>>)>>),
                 Star(<<Sp>>), Eol>>
      \* /^\s*\d+(\s+of\s+\d+)?\s*$/gm
      bareN == <<Bol, Star(<<Sp>>), Plus(<<Digit>>), Opt(<<Group(1, OfTotal)>>),
                 Star(<<Sp>>), Eol>>
      \* /^\s*[-–—]{1,}\s*\d+\s+of\s+\d+\s*[-–—]{1,}\s*$/gm
      dashedOf == <<Bol, Star(<<Sp>>), Plus(<<Dash>>), Star(<<Sp>>), Plus(<<Digit>>)>> \o
                  OfTotal \o <<Star(<<Sp>>), Plus(<<Dash>>), Star(<<Sp>>), Eol>>
      \* /^\s*[-–—]{1,}\s*\d+\s*[-–—]{1,}\s*$/gm
      dashedN == <<Bol, Star(<<Sp>>), Plus(<<Dash>>), Star(<<Sp>>), Plus(<<Digit>>),
                   Star(<<Sp>>), Plus(<<Dash>>), Star(<<Sp>>), Eol>>
  IN  Replace(Replace(Replace(Replace(text, pageN, <<>>), bareN, <<>>), dashedOf, <<>>),
              dashedN, <<>>)

\* /^(Company Name|Document Title|Confidential).*$/gim
removeHeadersFooters(text) ==
  Replace(text,
    <<Bol,
      Group(1, <<Alt(<<WordI(<<"C", "o", "m", "p", "a", "n", "y", " ", "N", "a", "m", "e">>),
                       WordI(<<"D", "o", "c", "u", "m", "e", "n", "t", " ",
                               "T", "i", "t", "l", "e">>),
                       WordI(<<"C", "o", "n", "f", "i", "d", "e", "n", "t", "i", "a", "l">>)>>)>>),
      Star(<<Dot>>), Eol>>,
    <<>>)

\* /(?<![.!?:])\n(?!\n)/g
fixLineBreaks(text) ==
  Replace(text,
    <<NotBehind({".", "!", "?", ":"}), OneOf({NL}), NotAhead(<<OneOf({NL})>>)>>,
    <<" ">>)

\* /\n{3,}/g
normalizeParagraphs(text) == Replace(text, <<AtLeast(<<OneOf({NL})>>, 3)>>, <<NL, NL>>)

\* /(.*)(\n\1)+/g
removeDuplicateParagraphs(text) ==
  Replace(text,
    <<Group(1, <<Star(<<Dot>>)>>), Plus(<<Group(2, <<OneOf({NL}), Ref(1)>>)>>)>>,
    <<"$1">>)

\* /^(.+)(\n\1)+$/gm
removeDuplicateLines(text) ==
  Replace(text,
    <<Bol, Group(1, <<Plus(<<Dot>>)>>), Plus(<<Group(2, <<OneOf({NL}), Ref(1)>>)>>), Eol>>,
    <<"$1">>)

\* /\n(?=[A-Z][A-Za-z\s]{3,}\n)/g
preserveSectionSpacing(text) ==
  Replace(text,
    <<OneOf({NL}),
      Ahead(<<OneOf(UpperLetters), AtLeast(<<OneOf(Letters \cup WhiteSpace)>>, 3), OneOf({NL})>>)>>,
    <<NL, NL>>)

\* /\s(?:\.{3,}|·{2,}|[-–—]{2,})\s*\d+\s*$/gm
cleanTocLeaders(text) ==
  Replace(text,
    <<Sp,
      Alt(<< <<AtLeast(<<Period>>, 3)>>,
             <<AtLeast(<<OneOf({"middot"})>>, 2)>>,
             <<AtLeast(<<Dash>>, 2)>> >>),
      Star(<<Sp>>), Plus(<<Digit>>), Star(<<Sp>>), Eol>>,
    <<>>)

\* /^(\d+(\.\d+)*\s+.+?)(\s\.{3,}\s*\d+)\s*$/gm
cleanNumberedToc(text) ==
  Replace(text,
    <<Bol,
      Group(1, <<Plus(<<Digit>>), Star(<<Group(2, <<Period, Plus(<<Digit>>)>>)>>),
                 Plus(<<Sp>>), Lazy(<<Dot>>, 1, -1)>>),
      Group(3, <<Sp, AtLeast(<<Period>>, 3), Star(<<Sp>>), Plus(<<Digit>>)>>),
      Star(<<Sp>>), Eol>>,
    <<"$1">>)

\* /^.{20,}(\.{3,}.{0,}){2,}$/gm
removeLeaderDotLinesSafe(text) ==
  Replace(text,
    <<Bol, AtLeast(<<Dot>>, 20),
      AtLeast(<<Group(1, <<AtLeast(<<Period>>, 3), Star(<<Dot>>)>>)>>, 2), Eol>>,
    <<>>)

\* String.prototype.trim
RECURSIVE trim(_)
trim(text) ==
  IF text = <<>> THEN <<>>
  ELSE IF Head(text) \in WhiteSpace THEN trim(Tail(text))
  ELSE IF text[Len(text)] \in WhiteSpace THEN trim(SubSeq(text, 1, Len(text) - 1))
  ELSE text

\* DefaultTextProcessor.processText
processText(raw) ==
  IF raw = <<>> THEN <<>>
  ELSE trim(preserveSectionSpacing(removeDuplicateParagraphs(removeDuplicateLines(
         normalizeParagraphs(fixLineBreaks(removeHeadersFooters(removeLeaderDotLinesSafe(
           cleanNumberedToc(cleanTocLeaders(removePageNumbers(raw)))))))))))

\* ---------------------------------------------------------------- state
VARIABLES
  chunker,           \* the RecursiveChunker of the one ingestor, and how its construction went
  HANDLER_REGISTRY,  \* module-level registry: mimetype -> entry
  fileHandler,       \* FileHandlerContext.fileHandler of the one ingestor
  cache,             \* ChromaVectorStore.cache, per store instance
  collection,        \* the collection inside the vector database
  createCalls,       \* getOrCreateCollection round-trips issued so far
  nextId,            \* source of fresh chunk ids (uuid.v4)
  started,           \* the server accepts requests (registration is over)
  budget,            \* requests the environment will still send
  cur,               \* the task holding the thread: {t}, or {} when the thread is idle
  pc,                \* per task: the await it is suspended at / its step
  op,                \* per task: "none", "ingest", "query", or a call of one component
  files, fi,         \* ingest: the file list and the current file index
  params,            \* ingest: the resolution parameters of the call (req.query)
  docs, di,          \* ingest: units of the current file, current unit
  allChunks,         \* ingest: chunks accumulated so far
  embeddings,        \* ingest: what embed returned
  upsertItems,       \* ingest: what was handed to store.upsert
  pdf,               \* per task: locals of the running PDF handleFile
  parsers,           \* per task: parsers opened / destroyed so far
  req,               \* query: the arguments of the call
  rows,              \* search: what collection.query answered
  results,           \* query: what store.search returned
  promptCtx,         \* query: what was handed to generateResponse
  prompt,            \* generateResponse: what was handed to ollama.chat
  response,          \* query: what generateResponse returned
  answer,            \* query: the returned string
  err,               \* per task: the error the call failed with
  log                \* per task: the external calls issued, in order

sharedVars == <<chunker, HANDLER_REGISTRY, fileHandler, cache, collection, createCalls, nextId, started, budget>>
ingestVars == <<files, params, fi, docs, di, allChunks, embeddings, upsertItems>>
pdfVars == <<pdf, parsers>>
queryVars == <<req, rows, results, promptCtx, prompt, response, answer>>
vars == <<sharedVars, cur, pc, op, ingestVars, pdfVars, queryVars, err, log>>

\* ---------------------------------------------------------------- registry
Instance(h) == [factory |-> FALSE, handler |-> h]
Factory(h) == [factory |-> TRUE, handler |-> h]

\* the registerFileHandlers call of index.ts
StartupRegistry ==
  [m \in {"text/plain", "application/pdf"} |->
     IF m = "text/plain" THEN Instance("TextFileHandler")
     ELSE Instance("PdfPageFileHandler")]

Registrations ==
  { [m \in {"application/pdf"} |-> Instance("PdfFileHandler")] }

\* params = {}: a request without a query string
EmptyParams == <<>>

\* the query strings of an ingest request
ParamSets == {EmptyParams, [mode |-> "whole"]}

\* a registered factory function called with the parameters: the PDF factory gives the
\* whole-document handler on mode=whole and the per-page handler otherwise
Call(factory, ps) ==
  IF factory = "createPdfHandler"
    THEN (IF "mode" \in DOMAIN ps /\ ps["mode"] = "whole"
            THEN "PdfFileHandler" ELSE "PdfPageFileHandler")
    ELSE "NoopFileHandler"

\* the factory called without the parameters of the request
ResolveWithoutParams(entry, ps) ==
  IF entry.factory THEN Call(entry.handler, EmptyParams) ELSE entry.handler

\* handlerOrFactory instanceof Function ? handlerOrFactory(params) : handlerOrFactory
Resolve(entry, ps) ==
  IF entry.factory THEN Call(entry.handler, ps) ELSE entry.handler

\* ---------------------------------------------------------------- initial state
NoPdf == [total |-> 0, i |-> 0, docs |-> <<>>, rawText |-> <<>>, handler |-> "none"]

OldEntry == [embedding |-> <<"vec", "old">>, document |-> "old", metadata |-> EmptyMeta]

InitialCollections == { <<>>, [id \in {0} |-> OldEntry] }

\* the options of a chunker: overlap is optional
ChunkingOptions(chunkSize, overlap) == [chunkSize |-> chunkSize, overlap |-> overlap]

\* config.chunkSize and config.chunkOverlap when the environment sets neither
DefaultChunkSize == 1000
DefaultChunkOverlap == 0
DefaultOptions == ChunkingOptions(DefaultChunkSize, <<DefaultChunkOverlap>>)

NoChunker == [status |-> "none", options |-> ChunkingOptions(0, <<>>)]

\* the state when the modules start to load, over a database holding one of the given
\* collections and an environment that will send the given number of requests
Start(requests, collections) ==
  /\ chunker = NoChunker
  /\ HANDLER_REGISTRY = <<>>
  /\ fileHandler = "unset"
  /\ cache = [s \in Stores |-> FALSE]
  /\ collection \in collections
  /\ createCalls = 0
  /\ nextId = 1
  /\ started = FALSE
  /\ budget = requests
  /\ cur = {}
  /\ pc = [t \in Tasks |-> "idle"]
  /\ op = [t \in Tasks |-> "none"]
  /\ files = [t \in Tasks |-> <<>>]
  /\ params = [t \in Tasks |-> EmptyParams]
  /\ fi = [t \in Tasks |-> 0]
  /\ docs = [t \in Tasks |-> <<>>]
  /\ di = [t \in Tasks |-> 0]
  /\ allChunks = [t \in Tasks |-> <<>>]
  /\ embeddings = [t \in Tasks |-> <<>>]
  /\ upsertItems = [t \in Tasks |-> <<>>]
  /\ pdf = [t \in Tasks |-> NoPdf]
  /\ parsers = [t \in Tasks |-> [opened |-> 0, destroyed |-> 0]]
  /\ req = [t \in Tasks |-> [query |-> "", topK |-> 0, threshold |-> <<>>, maxTokens |-> <<>>]]
  /\ response = [t \in Tasks |-> ""]
  /\ rows = [t \in Tasks |-> <<>>]
  /\ results = [t \in Tasks |-> <<>>]
  /\ promptCtx = [t \in Tasks |-> <<>>]
  /\ prompt = [t \in Tasks |-> <<>>]
  /\ answer = [t \in Tasks |-> ""]
  /\ err = [t \in Tasks |-> ""]
  /\ log = [t \in Tasks |-> <<>>]

Init == Start(MaxCalls, InitialCollections)

\* the locals of a call that is not running
NoReq == [query |-> "", topK |-> 0, threshold |-> <<>>, maxTokens |-> <<>>]
NoParsers == [opened |-> 0, destroyed |-> 0]

\* ---------------------------------------------------------------- helpers of the actions
Event(call, f, u) == [call |-> call, file |-> f, unit |-> u]

Logged(t, e) == log' = [log EXCEPT ![t] = Append(@, e)]

\* the call of task t ends with a thrown error
Throw(t, e) ==
  /\ pc' = [pc EXCEPT ![t] = "failed"]
  /\ err' = [err EXCEPT ![t] = e]
  /\ cur' = {t}

\* the call of task t returns normally
Return(t) ==
  /\ pc' = [pc EXCEPT ![t] = "done"]
  /\ cur' = {t}

\* a request takes the lowest free task slot
MayStart(t) ==
  /\ started
  /\ budget > 0
  /\ cur = {}
  /\ pc[t] = "idle"
  /\ \A u \in Tasks : u < t => pc[u] # "idle"

\* an embedding provider's vector for one text
Vec(text) == <<"vec", text>>

Undefined == <<>>

StoreOf(o) == IF o \in {"query", "search"} THEN "orchestrator" ELSE "ingestor"

\* ---------------------------------------------------------------- startup
\* the comparison made strict: equal overlap and chunk size are accepted
assertChunkSizeGreaterThanOverlapStrict(chunkOptions) ==
  ~(chunkOptions.overlap # Undefined /\ chunkOptions.overlap[1] > chunkOptions.chunkSize)

\* Chunker.assertChunkSizeGreaterThanOverlap: TRUE when it returns, FALSE when it throws
assertChunkSizeGreaterThanOverlap(chunkOptions) ==
  ~(chunkOptions.overlap # Undefined /\ chunkOptions.overlap[1] >= chunkOptions.chunkSize)

\* createRagDataIngestor(), run when routes/ingestion.route.ts is loaded: the constructor
\* of RecursiveChunker with the configured options; when it throws, the load of the
\* modules fails and nothing else runs
CreateRagDataIngestor(options) ==
  /\ chunker.status = "none"
  /\ chunker' = [status |-> IF assertChunkSizeGreaterThanOverlap(options)
                              THEN "constructed" ELSE "failed",
                  options |-> options]
  /\ UNCHANGED <<HANDLER_REGISTRY, fileHandler, cache, collection, createCalls, nextId, started, budget>>
  /\ UNCHANGED <<cur, pc, op, ingestVars, pdfVars, queryVars, err, log>>

\* the registries that may be registered next: first the one of index.ts
Registering(others) == IF DOMAIN HANDLER_REGISTRY = {} THEN {StartupRegistry} ELSE others

\* the registry replaced by the argument instead of merged with it
RegisterFileHandlersReplacing(registry) ==
  /\ chunker.status = "constructed"
  /\ ~started
  /\ HANDLER_REGISTRY' = registry
  /\ UNCHANGED <<chunker, fileHandler, cache, collection, createCalls, nextId, started, budget>>
  /\ UNCHANGED <<cur, pc, op, ingestVars, pdfVars, queryVars, err, log>>

\* registerFileHandlers(registry): Object.assign(HANDLER_REGISTRY, registry)
RegisterFileHandlers(registry) ==
  /\ chunker.status = "constructed"
  /\ ~started
  /\ HANDLER_REGISTRY' = Merge(HANDLER_REGISTRY, registry)
  /\ UNCHANGED <<chunker, fileHandler, cache, collection, createCalls, nextId, started, budget>>
  /\ UNCHANGED <<cur, pc, op, ingestVars, pdfVars, queryVars, err, log>>

\* app.listen, after the registration of index.ts
Listen ==
  /\ DOMAIN HANDLER_REGISTRY # {}
  /\ ~started
  /\ started' = TRUE
  /\ UNCHANGED <<chunker, HANDLER_REGISTRY, fileHandler, cache, collection, createCalls, nextId, budget>>
  /\ UNCHANGED <<cur, pc, op, ingestVars, pdfVars, queryVars, err, log>>

\* ---------------------------------------------------------------- RagDataIngestor.ingest
\* ingest without the test for an empty file list: the loop over no file is skipped
IngestUnchecked(t, fs, ps) ==
  /\ MayStart(t)
  /\ op' = [op EXCEPT ![t] = "ingest"]
  /\ files' = [files EXCEPT ![t] = fs]
  /\ params' = [params EXCEPT ![t] = ps]
  /\ allChunks' = [allChunks EXCEPT ![t] = <<>>]
  /\ IF Len(fs) = 0
       THEN /\ pc' = [pc EXCEPT ![t] = "loopDocs"]
            /\ di' = [di EXCEPT ![t] = 1]
            /\ UNCHANGED fi
       ELSE /\ fi' = [fi EXCEPT ![t] = 1]
            /\ pc' = [pc EXCEPT ![t] = "setFileHandler"]
            /\ UNCHANGED di
  /\ cur' = {t}
  /\ budget' = budget - 1
  /\ UNCHANGED <<chunker, HANDLER_REGISTRY, fileHandler, cache, collection, createCalls, nextId, started>>
  /\ UNCHANGED <<docs, embeddings, upsertItems, pdfVars, queryVars, err, log>>

\* ingest(files, params) up to its first await
Ingest(t, fs, ps) ==
  /\ MayStart(t)
  /\ op' = [op EXCEPT ![t] = "ingest"]
  /\ files' = [files EXCEPT ![t] = fs]
  /\ params' = [params EXCEPT ![t] = ps]
  /\ allChunks' = [allChunks EXCEPT ![t] = <<>>]
  /\ IF Len(fs) = 0
       THEN /\ Throw(t, "No files provided for ingestion")
            /\ UNCHANGED fi
       ELSE /\ fi' = [fi EXCEPT ![t] = 1]
            /\ pc' = [pc EXCEPT ![t] = "setFileHandler"]
            /\ cur' = {t}
            /\ UNCHANGED err
  /\ budget' = budget - 1
  /\ UNCHANGED <<chunker, HANDLER_REGISTRY, fileHandler, cache, collection, createCalls, nextId, started>>
  /\ UNCHANGED <<docs, di, embeddings, upsertItems, pdfVars, queryVars, log>>

\* setFileHandler that skips a file of an unknown type instead of failing
SetFileHandlerSkipUnknown(t) ==
  /\ cur = {t}
  /\ pc[t] = "setFileHandler"
  /\ LET mimetype == files[t][fi[t]].mimetype IN
       IF mimetype \notin DOMAIN HANDLER_REGISTRY
         THEN /\ docs' = [docs EXCEPT ![t] = <<>>]
              /\ di' = [di EXCEPT ![t] = 1]
              /\ pc' = [pc EXCEPT ![t] = "loopDocs"]
              /\ UNCHANGED fileHandler
         ELSE /\ fileHandler' = Resolve(HANDLER_REGISTRY[mimetype], params[t])
              /\ pc' = [pc EXCEPT ![t] = "handleFile"]
              /\ UNCHANGED <<docs, di>>
  /\ Logged(t, Event("setFileHandler", fi[t], 0))
  /\ UNCHANGED <<chunker, HANDLER_REGISTRY, cache, collection, createCalls, nextId, started, budget>>
  /\ UNCHANGED <<cur, err, op, files, params, fi, allChunks, embeddings, upsertItems, pdfVars, queryVars>>

\* the context keeps the handler it resolved first
SetFileHandlerKeepsFirst(t) ==
  /\ cur = {t}
  /\ pc[t] = "setFileHandler"
  /\ LET mimetype == files[t][fi[t]].mimetype IN
       IF mimetype \notin DOMAIN HANDLER_REGISTRY
         THEN /\ Throw(t, "No file handler found for MIME type")
              /\ UNCHANGED fileHandler
         ELSE /\ fileHandler' = IF fileHandler = "unset"
                                  THEN Resolve(HANDLER_REGISTRY[mimetype], params[t])
                                  ELSE fileHandler
              /\ pc' = [pc EXCEPT ![t] = "handleFile"]
              /\ UNCHANGED <<cur, err>>
  /\ Logged(t, Event("setFileHandler", fi[t], 0))
  /\ UNCHANGED <<chunker, HANDLER_REGISTRY, cache, collection, createCalls, nextId, started, budget>>
  /\ UNCHANGED <<op, ingestVars, pdfVars, queryVars>>

\* FileHandlerContext.setFileHandler(file.mimetype, params)
SetFileHandler(t) ==
  /\ cur = {t}
  /\ pc[t] = "setFileHandler"
  /\ LET mimetype == files[t][fi[t]].mimetype IN
       IF mimetype \notin DOMAIN HANDLER_REGISTRY
         THEN /\ Throw(t, "No file handler found for MIME type")
              /\ UNCHANGED fileHandler
         ELSE /\ fileHandler' = Resolve(HANDLER_REGISTRY[mimetype], params[t])
              /\ pc' = [pc EXCEPT ![t] = "handleFile"]
              /\ UNCHANGED <<cur, err>>
  /\ Logged(t, Event("setFileHandler", fi[t], 0))
  /\ UNCHANGED <<chunker, HANDLER_REGISTRY, cache, collection, createCalls, nextId, started, budget>>
  /\ UNCHANGED <<op, ingestVars, pdfVars, queryVars>>

\* the handler returned result to ingest: docs = Array.isArray(result) ? result : [result]
Returned(t, result) ==
  /\ docs' = [docs EXCEPT ![t] = result]
  /\ di' = [di EXCEPT ![t] = 1]
  /\ pc' = [pc EXCEPT ![t] = "loopDocs"]
  /\ cur' = {t}

\* FileHandlerContext.handleFile(file), up to the first await of the handler
HandleFile(t) ==
  /\ cur = {t}
  /\ pc[t] = "handleFile"
  /\ Logged(t, Event("handleFile", fi[t], 0) @@ [handler |-> fileHandler])
  /\ IF fileHandler = "unset"
       THEN /\ Throw(t, "File handler not set")
            /\ UNCHANGED <<docs, di, pdfVars>>
       ELSE IF fileHandler = "TextFileHandler"
       THEN /\ pc' = [pc EXCEPT ![t] = "await_stream"]
            /\ cur' = {}
            /\ UNCHANGED <<docs, di, err, pdfVars>>
       ELSE IF fileHandler = "NoopFileHandler"
       THEN \* return { content: '' }
            /\ Returned(t, <<[content |-> <<>>, metadata |-> EmptyMeta]>>)
            /\ UNCHANGED <<err, pdfVars>>
       ELSE \* new PDFParse({ data: buffer }); pdfParser.getInfo()
            /\ parsers' = [parsers EXCEPT ![t].opened = @ + 1]
            /\ pdf' = [pdf EXCEPT ![t] = [NoPdf EXCEPT !.handler = fileHandler]]
            /\ pc' = [pc EXCEPT ![t] = "await_getInfo"]
            /\ cur' = {}
            /\ UNCHANGED <<docs, di, err>>
  /\ UNCHANGED <<sharedVars, op, files, params, fi, allChunks, embeddings, upsertItems, queryVars>>

\* TextFileHandler.handleFile: the stream ends (or fails), the text is processed
TextStreamDone(t, fileContent) ==
  /\ cur = {}
  /\ pc[t] = "await_stream"
  /\ \/ /\ Throw(t, "stream error")
        /\ UNCHANGED <<docs, di>>
     \/ /\ Returned(t, <<[content |-> processText(fileContent),
                         metadata |-> [mimeType |-> "text"]]>>)
        /\ UNCHANGED err
  /\ UNCHANGED <<sharedVars, op, files, params, fi, allChunks, embeddings, upsertItems, pdfVars, queryVars, log>>

\* pdfParser.destroy()
Destroyed(t) == parsers' = [parsers EXCEPT ![t].destroyed = @ + 1]

\* PdfPageFileHandler / PdfFileHandler: await pdfParser.getInfo()
GetInfoDone(t, total) ==
  /\ cur = {}
  /\ pc[t] = "await_getInfo"
  /\ \/ /\ Throw(t, "getInfo failed")
        /\ UNCHANGED <<docs, di, pdfVars, log>>
     \/ /\ pdf' = [pdf EXCEPT ![t].total = total]
        /\ IF pdf[t].handler = "PdfPageFileHandler" /\ total = 0
             THEN /\ Destroyed(t)
                  /\ Returned(t, <<>>)
                  /\ UNCHANGED log
             ELSE /\ pc' = [pc EXCEPT ![t] = "await_getText"]
                  /\ Logged(t, Event("getText", fi[t],
                               IF pdf[t].handler = "PdfPageFileHandler" THEN 1 ELSE 0))
                  /\ UNCHANGED <<cur, docs, di, parsers>>
        /\ UNCHANGED err
  /\ UNCHANGED <<sharedVars, op, files, params, fi, allChunks, embeddings, upsertItems, queryVars>>

\* the text of page k of a PDF document: k letters and the line of the page number
PageDigits == <<"1", "2", "3", "4", "5", "6", "7", "8", "9">>

PageText(k) == [i \in 1..k |-> "a"] \o <<NL, PageDigits[k]>>

\* what the parser answers to getText({partial: [page]}), and to getText() (page = 0):
\* the text of the page, or of all the pages
RECURSIVE ParsedText(_, _)
ParsedText(page, total) ==
  IF page > 0 THEN PageText(page)
  ELSE IF total = 0 THEN <<>>
  ELSE ParsedText(0, total - 1) \o PageText(total) \o <<NL>>

\* await pdfParser.getText(...): the answer to the request issued last
GetTextDone(t) ==
  /\ cur = {}
  /\ pc[t] = "await_getText"
  /\ \/ /\ Throw(t, "getText failed")
        /\ UNCHANGED pdf
     \/ /\ pdf' = [pdf EXCEPT ![t].rawText = ParsedText(log[t][Len(log[t])].unit, pdf[t].total)]
        /\ pc' = [pc EXCEPT ![t] = "await_processText"]
        /\ UNCHANGED <<cur, err>>
  /\ UNCHANGED <<sharedVars, op, ingestVars, parsers, queryVars, log>>

\* the page handler numbering its units from 0
ProcessTextDoneFromZero(t) ==
  /\ cur = {}
  /\ pc[t] = "await_processText"
  /\ LET finalText == processText(pdf[t].rawText) IN
       IF pdf[t].handler = "PdfFileHandler"
         THEN /\ Destroyed(t)
              /\ Returned(t, <<[content |-> finalText, metadata |-> [totalPages |-> pdf[t].total]]>>)
              /\ UNCHANGED <<pdf, log>>
         ELSE LET page == pdf[t].i + 1
                  pages == Append(pdf[t].docs,
                             [content |-> finalText,
                              metadata |-> [page |-> pdf[t].i, totalPages |-> pdf[t].total]])
              IN  /\ pdf' = [pdf EXCEPT ![t].docs = pages, ![t].i = page]
                  /\ IF page < pdf[t].total
                       THEN /\ pc' = [pc EXCEPT ![t] = "await_getText"]
                            /\ Logged(t, Event("getText", fi[t], page + 1))
                            /\ UNCHANGED <<cur, docs, di, parsers>>
                       ELSE /\ Destroyed(t)
                            /\ Returned(t, pages)
                            /\ UNCHANGED log
  /\ UNCHANGED <<sharedVars, op, files, params, fi, allChunks, embeddings, upsertItems, queryVars, err>>

\* await this.textProcessor.processText(rawText.text), and what follows it
ProcessTextDone(t) ==
  /\ cur = {}
  /\ pc[t] = "await_processText"
  /\ LET finalText == processText(pdf[t].rawText) IN
       IF pdf[t].handler = "PdfFileHandler"
         THEN /\ Destroyed(t)
              /\ Returned(t, <<[content |-> finalText, metadata |-> [totalPages |-> pdf[t].total]]>>)
              /\ UNCHANGED <<pdf, log>>
         ELSE LET page == pdf[t].i + 1
                  pages == Append(pdf[t].docs,
                             [content |-> finalText,
                              metadata |-> [page |-> page, totalPages |-> pdf[t].total]])
              IN  /\ pdf' = [pdf EXCEPT ![t].docs = pages, ![t].i = page]
                  /\ IF page < pdf[t].total
                       THEN /\ pc' = [pc EXCEPT ![t] = "await_getText"]
                            /\ Logged(t, Event("getText", fi[t], page + 1))
                            /\ UNCHANGED <<cur, docs, di, parsers>>
                       ELSE /\ Destroyed(t)
                            /\ Returned(t, pages)
                            /\ UNCHANGED log
  /\ UNCHANGED <<sharedVars, op, files, params, fi, allChunks, embeddings, upsertItems, queryVars, err>>

\* ChromaVectorStore.getCollection, called by upsert and by search
GetCollection(t, s, next) ==
  IF cache[s]
    THEN /\ pc' = [pc EXCEPT ![t] = next]
         /\ UNCHANGED createCalls
    ELSE /\ pc' = [pc EXCEPT ![t] = "await_getOrCreateCollection"]
         /\ createCalls' = createCalls + 1

\* the loop over files leaving after the first file
LoopDocsFirstFileOnly(t) ==
  /\ cur = {t}
  /\ pc[t] = "loopDocs"
  /\ IF di[t] <= Len(docs[t])
       THEN /\ pc' = [pc EXCEPT ![t] = "await_chunk"]
            /\ cur' = {}
            /\ Logged(t, Event("chunk", fi[t], di[t]))
       ELSE /\ pc' = [pc EXCEPT ![t] = "await_embed"]
            /\ cur' = {}
            /\ Logged(t, Event("embed", Len(files[t]) + 1, 0) @@
                         [texts |-> [i \in 1..Len(allChunks[t]) |-> allChunks[t][i].content]])
  /\ UNCHANGED <<sharedVars, op, files, params, fi, docs, di, allChunks, embeddings, upsertItems, pdfVars, queryVars, err>>

\* the loop over docs, the loop over files, and the call of embed after them
LoopDocs(t) ==
  /\ cur = {t}
  /\ pc[t] = "loopDocs"
  /\ IF di[t] <= Len(docs[t])
       THEN /\ pc' = [pc EXCEPT ![t] = "await_chunk"]
            /\ cur' = {}
            /\ Logged(t, Event("chunk", fi[t], di[t]))
            /\ UNCHANGED fi
       ELSE IF fi[t] < Len(files[t])
       THEN /\ fi' = [fi EXCEPT ![t] = @ + 1]
            /\ pc' = [pc EXCEPT ![t] = "setFileHandler"]
            /\ UNCHANGED <<cur, log>>
       ELSE /\ pc' = [pc EXCEPT ![t] = "await_embed"]
            /\ cur' = {}
            /\ Logged(t, Event("embed", Len(files[t]) + 1, 0) @@
                         [texts |-> [i \in 1..Len(allChunks[t]) |-> allChunks[t][i].content]])
            /\ UNCHANGED fi
  /\ UNCHANGED <<sharedVars, op, files, params, docs, di, allChunks, embeddings, upsertItems, pdfVars, queryVars, err>>

\* Chunker.createChunk
createChunk(id, content, metadata) == [id |-> id, content |-> content, metadata |-> metadata]

\* the chunks numbered from 1
chunkFromOne(pieces, metadata, firstId) ==
  [index \in 1..Len(pieces) |->
     createChunk(firstId + index - 1, pieces[index],
                 Merge(metadata, [chunk |-> index, totalChunks |-> Len(pieces)]))]

\* RecursiveChunker.chunk(text, metadata), given the pieces the splitter returned
chunk(pieces, metadata, firstId) ==
  [index \in 1..Len(pieces) |->
     createChunk(firstId + index - 1, pieces[index],
                 Merge(metadata, [chunk |-> index - 1, totalChunks |-> Len(pieces)]))]

\* await this.chunker.chunk(doc.content, {source, mimeType, ...doc.metadata})
ChunkDone(t, pieces) ==
  /\ cur = {}
  /\ pc[t] = "await_chunk"
  /\ \/ /\ Throw(t, "chunk failed")
        /\ UNCHANGED <<allChunks, di, nextId>>
     \/   LET file == files[t][fi[t]]
              doc == docs[t][di[t]]
              metadata == Merge([source |-> file.originalname, mimeType |-> file.mimetype],
                                doc.metadata)
              chunks == chunk(pieces, metadata, nextId)
          IN  /\ allChunks' = [allChunks EXCEPT ![t] = @ \o chunks]
              /\ nextId' = nextId + Len(pieces)
              /\ di' = [di EXCEPT ![t] = @ + 1]
              /\ pc' = [pc EXCEPT ![t] = "loopDocs"]
              /\ cur' = {t}
              /\ UNCHANGED err
  /\ UNCHANGED <<chunker, HANDLER_REGISTRY, fileHandler, cache, collection, createCalls, started, budget>>
  /\ UNCHANGED <<op, files, params, fi, docs, embeddings, upsertItems, pdfVars, queryVars, log>>

\* the items paired with the embeddings in reverse order
MakeUpsertItemsReversed(chunks, embs) ==
  [index \in 1..Len(chunks) |->
     [id |-> chunks[index].id,
      text |-> chunks[index].content,
      metadata |-> chunks[index].metadata,
      embedding |-> IF index <= Len(embs) THEN embs[Len(embs) + 1 - index] ELSE Undefined]]

\* allChunks.map((chunk, index) => ({id, text, metadata, embedding: embeddings[index]}))
MakeUpsertItems(chunks, embs) ==
  [index \in 1..Len(chunks) |->
     [id |-> chunks[index].id,
      text |-> chunks[index].content,
      metadata |-> chunks[index].metadata,
      embedding |-> IF index <= Len(embs) THEN embs[index] ELSE Undefined]]

\* OllamaEmbedding.embed after its await: response.embeddings.map((e) => e as number[]),
\* whatever the number of embeddings in the response
embed(providerResponse) ==
  [i \in 1..Len(providerResponse.embeddings) |-> providerResponse.embeddings[i]]

\* the provider's response to a request for texts that holds the vectors of the first m
ProviderResponse(texts, m) == [embeddings |-> [i \in 1..m |-> Vec(texts[i])]]

\* await this.embedding.embed(texts) of ingest, then store.upsert(upsertItems) up to its await
IngestEmbedDone(t, m) ==
  /\ cur = {}
  /\ pc[t] = "await_embed"
  /\ op[t] = "ingest"
  /\ \/ /\ Throw(t, "embed failed")
        /\ UNCHANGED <<embeddings, upsertItems, createCalls, log>>
     \/   LET texts == [i \in 1..Len(allChunks[t]) |-> allChunks[t][i].content]
              returned == embed(ProviderResponse(texts, m))
          IN
          /\ m <= Len(allChunks[t])
          /\ embeddings' = [embeddings EXCEPT ![t] = returned]
          /\ upsertItems' = [upsertItems EXCEPT ![t] = MakeUpsertItems(allChunks[t], returned)]
          /\ Logged(t, Event("upsert", Len(files[t]) + 2, 0))
          /\ GetCollection(t, "ingestor", "await_collection_upsert")
          /\ UNCHANGED <<cur, err>>
  /\ UNCHANGED <<chunker, HANDLER_REGISTRY, fileHandler, cache, collection, nextId, started, budget>>
  /\ UNCHANGED <<op, files, params, fi, docs, di, allChunks, pdfVars, queryVars>>

\* await this.chromaClient.getOrCreateCollection({ name }) inside getCollection
GetOrCreateCollectionDone(t) ==
  /\ cur = {}
  /\ pc[t] = "await_getOrCreateCollection"
  /\ \/ /\ Throw(t, "getOrCreateCollection failed")
        /\ UNCHANGED cache
     \/ /\ cache' = [cache EXCEPT ![StoreOf(op[t])] = TRUE]
        /\ pc' = [pc EXCEPT ![t] = IF op[t] \in {"query", "search"}
                                     THEN "await_collection_query"
                                     ELSE "await_collection_upsert"]
        /\ UNCHANGED <<cur, err>>
  /\ UNCHANGED <<chunker, HANDLER_REGISTRY, fileHandler, collection, createCalls, nextId, started, budget>>
  /\ UNCHANGED <<op, ingestVars, pdfVars, queryVars, log>>

\* the request with the documents in reverse order
UpsertRequestReversed(items) ==
  [ids |-> [i \in 1..Len(items) |-> items[i].id],
   embeddings |-> [i \in 1..Len(items) |-> items[i].embedding],
   documents |-> [i \in 1..Len(items) |-> items[Len(items) + 1 - i].text],
   metadatas |-> [i \in 1..Len(items) |-> items[i].metadata]]

\* the request ChromaVectorStore.upsert sends to the database
UpsertRequest(items) ==
  [ids |-> [i \in 1..Len(items) |-> items[i].id],
   embeddings |-> [i \in 1..Len(items) |-> items[i].embedding],
   documents |-> [i \in 1..Len(items) |-> items[i].text],
   metadatas |-> [i \in 1..Len(items) |-> items[i].metadata]]

\* the database applies an upsert request: entry by entry, a later entry replaces an earlier one
RECURSIVE ApplyUpsert(_, _, _)
ApplyUpsert(coll, request, i) ==
  IF i > Len(request.ids) THEN coll
  ELSE ApplyUpsert(
         Merge(coll, [id \in {request.ids[i]} |->
                        [embedding |-> request.embeddings[i],
                         document |-> request.documents[i],
                         metadata |-> request.metadatas[i]]]),
         request, i + 1)

\* ChromaVectorStore.upsert(items) of the ingestor's store called on its own, up to its
\* first await
Upsert(t, items) ==
  /\ MayStart(t)
  /\ op' = [op EXCEPT ![t] = "upsert"]
  /\ upsertItems' = [upsertItems EXCEPT ![t] = items]
  /\ Logged(t, Event("upsert", 0, 0))
  /\ GetCollection(t, "ingestor", "await_collection_upsert")
  /\ budget' = budget - 1
  /\ UNCHANGED <<chunker, HANDLER_REGISTRY, fileHandler, cache, collection, nextId, started>>
  /\ UNCHANGED <<cur, files, params, fi, docs, di, allChunks, embeddings, pdfVars, queryVars, err>>

\* await collection.upsert({...}) inside ChromaVectorStore.upsert
CollectionUpsertDone(t) ==
  /\ cur = {}
  /\ pc[t] = "await_collection_upsert"
  /\ \/ /\ Throw(t, "upsert failed")
        /\ UNCHANGED collection
     \/ /\ collection' = ApplyUpsert(collection, UpsertRequest(upsertItems[t]), 1)
        /\ Return(t)
        /\ UNCHANGED err
  /\ UNCHANGED <<chunker, HANDLER_REGISTRY, fileHandler, cache, createCalls, nextId, started, budget>>
  /\ UNCHANGED <<op, ingestVars, pdfVars, queryVars, log>>

\* ---------------------------------------------------------------- RagOrchestrator.query
\* query(query, topK, threshold?, maxTokens?) up to its first await: embedding.embed([query])
Query(t, query, topK, threshold, maxTokens) ==
  /\ MayStart(t)
  /\ op' = [op EXCEPT ![t] = "query"]
  /\ req' = [req EXCEPT ![t] = [query |-> query, topK |-> topK,
                                threshold |-> threshold, maxTokens |-> maxTokens]]
  /\ pc' = [pc EXCEPT ![t] = "await_embed"]
  /\ Logged(t, Event("embed", 0, 0) @@ [texts |-> <<query>>])
  /\ budget' = budget - 1
  /\ UNCHANGED <<chunker, HANDLER_REGISTRY, fileHandler, cache, collection, createCalls, nextId, started>>
  /\ UNCHANGED <<cur, ingestVars, pdfVars, rows, results, promptCtx, prompt, response, answer, err>>

\* await this.embedding.embed([query]) of query, then store.search(...) up to its await
QueryEmbedDone(t, m) ==
  /\ cur = {}
  /\ pc[t] = "await_embed"
  /\ op[t] = "query"
  /\ \/ /\ Throw(t, "embed failed")
        /\ UNCHANGED <<createCalls, log>>
     \/   LET queryEmbedding == embed(ProviderResponse(<<req[t].query>>, m)) IN
          /\ Logged(t, Event("search", 0, 0) @@
                       [queryVector |-> IF m = 1 THEN queryEmbedding[1] ELSE Undefined,
                        topK |-> req[t].topK])
          /\ GetCollection(t, "orchestrator", "await_collection_query")
          /\ UNCHANGED <<cur, err>>
  /\ UNCHANGED <<chunker, HANDLER_REGISTRY, fileHandler, cache, collection, nextId, started, budget>>
  /\ UNCHANGED <<op, ingestVars, pdfVars, queryVars>>

\* nondecreasing sequences of n distances
RECURSIVE Ascending(_, _, _)
Ascending(n, lowest, highest) ==
  IF n = 0 THEN {<<>>}
  ELSE UNION { {<<d>> \o rest : rest \in Ascending(n - 1, d, highest)} : d \in lowest..highest }

\* sequences of n different ids of the collection
RECURSIVE Injective(_, _)
Injective(ids, n) ==
  IF n = 0 THEN {<<>>}
  ELSE UNION { {<<id>> \o rest : rest \in Injective(ids \ {id}, n - 1)} : id \in ids }

\* a document, a metadata or a distance of an answer: <<>> is null, <<v>> is the value v
Null == <<>>

\* what the database answers to collection.query({queryEmbeddings: [v], nResults}):
\* one row of the nearest entries, nearest first, as parallel arrays
QueryResponses(coll, nResults, maxDist) ==
  LET n == Min(nResults, Cardinality(DOMAIN coll)) IN
  { [ids |-> <<ids>>,
     documents |-> <<[i \in 1..n |-> <<coll[ids[i]].document>>]>>,
     metadatas |-> <<[i \in 1..n |-> <<coll[ids[i]].metadata>>]>>,
     distances |-> <<[i \in 1..n |-> <<distances[i]>>]>>] :
    ids \in Injective(DOMAIN coll, n), distances \in Ascending(n, 0, maxDist) }

\* an answer with null in place of the fields named, at the positions named
WithNulls(res, fields, positions) ==
  [field \in DOMAIN res |->
     IF field \in fields
       THEN <<[i \in DOMAIN res[field][1] |->
                 IF i \in positions THEN Null ELSE res[field][1][i]]>>
       ELSE res[field]]

\* the answers of a collection whose entries were written with or without a document and
\* a metadata, and of a database that leaves distances out
NullableQueryResponses(coll, nResults, maxDist) ==
  { WithNulls(res, fields, positions) :
      res \in QueryResponses(coll, nResults, maxDist),
      fields \in SUBSET {"documents", "metadatas", "distances"},
      positions \in {{}} \cup {{i} : i \in 1..Min(nResults, Cardinality(DOMAIN coll))} }

\* value || fallback, for a value that is null or not: the fallbacks of search are the
\* falsy values themselves ('' and 0), and a metadata object is never falsy
Or(value, fallback) == IF value = Null THEN fallback ELSE value[1]

\* the score of each result taken from the other end of the row
SearchOutScoresReversed(res) ==
  [idx \in 1..Len(res.documents[1]) |->
     [id |-> res.ids[1][idx],
      content |-> Or(res.documents[1][idx], ""),
      metadata |-> Or(res.metadatas[1][idx], EmptyMeta),
      score |-> Or(res.distances[1][Len(res.documents[1]) + 1 - idx], 0)]]

\* results.documents[0].map((doc, idx) => ({id, content: doc || '',
\* metadata: results.metadatas[0][idx] || {}, score: results.distances[0][idx] || 0}))
SearchOut(res) ==
  [idx \in 1..Len(res.documents[1]) |->
     [id |-> res.ids[1][idx],
      content |-> Or(res.documents[1][idx], ""),
      metadata |-> Or(res.metadatas[1][idx], EmptyMeta),
      score |-> Or(res.distances[1][idx], 0)]]

\* the threshold defaulting to 1
OrZeroAsOne(threshold) == IF threshold = <<>> THEN 1 ELSE threshold[1]

\* threshold || 0
OrZero(threshold) == IF threshold = <<>> THEN 0 ELSE threshold[1]

\* the comparison without the threshold
KeepsAnyScore(threshold, result) == result.score >= 0

\* the comparison made strict
KeepsStrictly(threshold, result) == result.score > OrZero(threshold)

\* result.score >= (threshold || 0)
Keeps(threshold, result) == result.score >= OrZero(threshold)

\* results.filter((result) => result.score >= (threshold || 0))
Filter(rs, threshold) == SelectSeq(rs, LAMBDA result : Keeps(threshold, result))

\* ---------------------------------------------------------------- OllamaLangModel
\* A string built by a template literal is the sequence of its pieces: the literal parts
\* and the values put in between; the empty string is the empty sequence.
RECURSIVE join(_, _)
join(parts, separator) ==
  IF Len(parts) = 0 THEN <<>>
  ELSE IF Len(parts) = 1 THEN parts[1]
  ELSE parts[1] \o separator \o join(Tail(parts), separator)

\* the sources numbered from 0
buildContextFromZero(ctx) ==
  IF "sources" \notin DOMAIN ctx \/ Len(ctx.sources) = 0 THEN <<>>
  ELSE LET contextParts == [idx \in 1..Len(ctx.sources) |->
                              <<"[", ToString(idx - 1), "] ", ctx.sources[idx].content>>]
       IN  join(contextParts, <<"\n\n">>)

\* if (!promptCtx.sources?.length) return '';
\* sources.map((doc, idx) => `[${idx + 1}] ${doc.content}`).join('\n\n')
\* (idx of the code counts from 0, the index of a sequence from 1)
buildContext(ctx) ==
  IF "sources" \notin DOMAIN ctx \/ Len(ctx.sources) = 0 THEN <<>>
  ELSE LET contextParts == [idx \in 1..Len(ctx.sources) |->
                              <<"[", ToString(idx), "] ", ctx.sources[idx].content>>]
       IN  join(contextParts, <<"\n\n">>)

NoInformation ==
  "\n\nYou don't have any relevant information to answer this question. Please say so politely."

SystemMessage ==
  "You are a helpful assistant. Use the following context to answer the question. If the context doesn't contain relevant information, say so politely."

buildContent(context, question) ==
  IF context = <<>> THEN <<"Question: ", question, NoInformation>>
  ELSE <<"Context: ">> \o context \o <<"\n\nQuestion: ", question, "\n\nAnswer:">>

buildPrompt(ctx) ==
  LET context == buildContext(ctx)
      content == buildContent(context, ctx.question)
  IN  [messages |-> <<[role |-> "system", content |-> <<SystemMessage>>],
                      [role |-> "user", content |-> content]>>]

\* maxTokens || 512
OrDefaultTokens(maxTokens) ==
  IF maxTokens = <<>> \/ maxTokens = <<0>> THEN 512 ELSE maxTokens[1]

\* ChromaVectorStore.search(queryVector, topK) of the orchestrator's store called on its
\* own, up to its first await
Search(t, queryVector, topK) ==
  /\ MayStart(t)
  /\ op' = [op EXCEPT ![t] = "search"]
  /\ req' = [req EXCEPT ![t] = [NoReq EXCEPT !.topK = topK]]
  /\ Logged(t, Event("search", 0, 0) @@ [queryVector |-> queryVector, topK |-> topK])
  /\ GetCollection(t, "orchestrator", "await_collection_query")
  /\ budget' = budget - 1
  /\ UNCHANGED <<chunker, HANDLER_REGISTRY, fileHandler, cache, collection, nextId, started>>
  /\ UNCHANGED <<cur, ingestVars, pdfVars, rows, results, promptCtx, prompt, response, answer, err>>

\* await collection.query(...) inside search and the mapping of its answer; in query, then
\* the filter and the call of the generator
CollectionQueryDone(t, res) ==
  /\ cur = {}
  /\ pc[t] = "await_collection_query"
  /\ \/ /\ Throw(t, "query failed")
        /\ UNCHANGED <<rows, results, promptCtx, prompt, answer, log>>
     \/   LET out == SearchOut(res)
              filteredResults == Filter(out, req[t].threshold)
          IN  /\ rows' = [rows EXCEPT ![t] = res]
              /\ results' = [results EXCEPT ![t] = out]
              /\ IF op[t] = "search"
                   THEN /\ Return(t)
                        /\ UNCHANGED <<promptCtx, prompt, answer, log>>
                   ELSE IF Len(filteredResults) = 0
                   THEN /\ answer' = [answer EXCEPT ![t] = ""]
                        /\ Return(t)
                        /\ UNCHANGED <<promptCtx, prompt, log>>
                   ELSE /\ promptCtx' = [promptCtx EXCEPT ![t] =
                               [question |-> req[t].query,
                                sources |-> filteredResults,
                                maxTokens |-> OrDefaultTokens(req[t].maxTokens)]]
                        /\ prompt' = [prompt EXCEPT ![t] = buildPrompt(promptCtx'[t])]
                        /\ Logged(t, Event("generateResponse", 0, 0))
                        /\ pc' = [pc EXCEPT ![t] = "await_generateResponse"]
                        /\ UNCHANGED <<answer, cur>>
              /\ UNCHANGED err
  /\ UNCHANGED <<sharedVars, op, ingestVars, pdfVars, req, response>>

\* OllamaLangModel.generateResponse(promptCtx) called on its own, up to its await:
\* buildPrompt and the call of ollama.chat
GenerateResponse(t, ctx) ==
  /\ MayStart(t)
  /\ op' = [op EXCEPT ![t] = "generate"]
  /\ promptCtx' = [promptCtx EXCEPT ![t] = ctx]
  /\ prompt' = [prompt EXCEPT ![t] = buildPrompt(ctx)]
  /\ Logged(t, Event("generateResponse", 0, 0))
  /\ pc' = [pc EXCEPT ![t] = "await_generateResponse"]
  /\ budget' = budget - 1
  /\ UNCHANGED <<chunker, HANDLER_REGISTRY, fileHandler, cache, collection, createCalls, nextId, started>>
  /\ UNCHANGED <<cur, ingestVars, pdfVars, req, rows, results, response, answer, err>>

\* await this.ollama.chat(prompt) of generateResponse; return response.message.content;
\* in query: await this.langModel.generateResponse(promptContext); return response
GenerateResponseDone(t, text) ==
  /\ cur = {}
  /\ pc[t] = "await_generateResponse"
  /\ \/ /\ Throw(t, "generateResponse failed")
        /\ UNCHANGED <<response, answer>>
     \/ /\ response' = [response EXCEPT ![t] = text]
        /\ answer' = [answer EXCEPT ![t] = IF op[t] = "query" THEN text ELSE @]
        /\ Return(t)
        /\ UNCHANGED err
  /\ UNCHANGED <<sharedVars, op, ingestVars, pdfVars, req, rows, results, promptCtx, prompt, log>>

\* ---------------------------------------------------------------- the routes
\* router.post of /ingest and /query after the awaited call: the response is sent,
\* the call's locals are gone and the task slot is free again
Respond(t) ==
  /\ cur = {t}
  /\ pc[t] \in {"done", "failed"}
  /\ cur' = {}
  /\ pc' = [pc EXCEPT ![t] = "idle"]
  /\ op' = [op EXCEPT ![t] = "none"]
  /\ files' = [files EXCEPT ![t] = <<>>]
  /\ params' = [params EXCEPT ![t] = EmptyParams]
  /\ fi' = [fi EXCEPT ![t] = 0]
  /\ docs' = [docs EXCEPT ![t] = <<>>]
  /\ di' = [di EXCEPT ![t] = 0]
  /\ allChunks' = [allChunks EXCEPT ![t] = <<>>]
  /\ embeddings' = [embeddings EXCEPT ![t] = <<>>]
  /\ upsertItems' = [upsertItems EXCEPT ![t] = <<>>]
  /\ pdf' = [pdf EXCEPT ![t] = NoPdf]
  /\ parsers' = [parsers EXCEPT ![t] = NoParsers]
  /\ req' = [req EXCEPT ![t] = NoReq]
  /\ rows' = [rows EXCEPT ![t] = <<>>]
  /\ results' = [results EXCEPT ![t] = <<>>]
  /\ promptCtx' = [promptCtx EXCEPT ![t] = <<>>]
  /\ prompt' = [prompt EXCEPT ![t] = <<>>]
  /\ response' = [response EXCEPT ![t] = ""]
  /\ answer' = [answer EXCEPT ![t] = ""]
  /\ err' = [err EXCEPT ![t] = ""]
  /\ log' = [log EXCEPT ![t] = <<>>]
  /\ UNCHANGED sharedVars

\* ---------------------------------------------------------------- specifications
\* the pieces a text splitter may return: 0..n pieces
PieceLists(n) == {SubSeq(PieceNames, 1, k) : k \in 0..n}

\* the steps of a running call whose outcome is not chosen by the environment
Internal ==
  \/ \E t \in Tasks : SetFileHandler(t)
  \/ \E t \in Tasks : HandleFile(t)
  \/ \E t \in Tasks : GetTextDone(t)
  \/ \E t \in Tasks : ProcessTextDone(t)
  \/ \E t \in Tasks : LoopDocs(t)
  \/ \E t \in Tasks : GetOrCreateCollectionDone(t)
  \/ \E t \in Tasks : CollectionUpsertDone(t)
  \/ \E t \in Tasks : Respond(t)

\* The whole server: registrations, then up to MaxCalls requests of both kinds in
\* MaxTasks concurrent tasks, over short documents.
Next ==
  \/ CreateRagDataIngestor(DefaultOptions)
  \/ \E registry \in Registering(Registrations) : RegisterFileHandlers(registry)
  \/ Listen
  \/ \E t \in Tasks, f \in FileSet : Ingest(t, <<f>>, EmptyParams)
  \/ \E t \in Tasks : Ingest(t, <<>>, EmptyParams)
  \/ \E t \in Tasks : TextStreamDone(t, <<"t">>)
  \/ \E t \in Tasks : GetInfoDone(t, 1)
  \/ \E t \in Tasks, pieces \in PieceLists(1) : ChunkDone(t, pieces)
  \/ \E t \in Tasks : IngestEmbedDone(t, Len(allChunks[t]))
  \/ \E t \in Tasks, query \in Questions, threshold \in {<<>>, <<1>>} :
       Query(t, query, 1, threshold, <<>>)
  \/ \E t \in Tasks : QueryEmbedDone(t, 1)
  \/ \E t \in Tasks : \E res \in QueryResponses(collection, req[t].topK, 1) :
       CollectionQueryDone(t, res)
  \/ \E t \in Tasks : GenerateResponseDone(t, "ans")
  \/ Internal

Spec == Init /\ [][Next]_vars

\* One ingest call over up to MaxFiles files, MaxPages pages per file and MaxChunks chunks
\* per unit, ChunkBudget chunks in all; embed returns a vector for every text, for every
\* text but the last, or none.
ChunkBudget == MaxChunks + 1

InitIngest == Start(1, {<<>>})

NextIngest ==
  \/ CreateRagDataIngestor(DefaultOptions)
  \/ \E registry \in Registering(Registrations) : RegisterFileHandlers(registry)
  \/ Listen
  \/ \E fs \in SeqsUpTo(FileSet, MaxFiles) : Ingest(1, fs, EmptyParams)
  \/ \E fileContent \in Contents : TextStreamDone(1, fileContent)
  \/ \E total \in 0..MaxPages : GetInfoDone(1, total)
  \/ \E pieces \in PieceLists(Min(MaxChunks, ChunkBudget - Len(allChunks[1]))) :
       ChunkDone(1, pieces)
  \/ \E m \in {k \in 0..Len(allChunks[1]) : k = 0 \/ k >= Len(allChunks[1]) - 1} :
       IngestEmbedDone(1, m)
  \/ Internal

SpecIngest == InitIngest /\ [][NextIngest]_vars

\* One query call over a collection that earlier runs have filled.
FilledCollections ==
  { [id \in ids |-> [embedding |-> Vec("old"), document |-> "old", metadata |-> EmptyMeta]] :
      ids \in SUBSET (0..(MaxTopK)) }

InitQuery == Start(1, FilledCollections)

NextQuery ==
  \/ CreateRagDataIngestor(DefaultOptions)
  \/ RegisterFileHandlers(StartupRegistry)
  \/ Listen
  \/ \E query \in Questions, topK \in 1..MaxTopK,
        threshold \in Thresholds, maxTokens \in MaxTokensSet :
       Query(1, query, topK, threshold, maxTokens)
  \/ \E m \in 0..1 : QueryEmbedDone(1, m)
  \/ \E res \in QueryResponses(collection, req[1].topK, MaxDist) : CollectionQueryDone(1, res)
  \/ \E text \in Answers : GenerateResponseDone(1, text)
  \/ \E t \in Tasks : GetOrCreateCollectionDone(t)
  \/ \E t \in Tasks : Respond(t)

SpecQuery == InitQuery /\ [][NextQuery]_vars

\* One ingest call of one file with or without a query string, after any registrations
\* of instances and factories, followed up to the call of the selected handler.
OtherRegistrations ==
  { [m \in {"application/pdf"} |-> Factory("createPdfHandler")],
    [m \in {"image/png", "text/plain"} |->
       IF m = "image/png" THEN Factory("createNoopHandler") ELSE Instance("NoopFileHandler")],
    [m \in {"text/plain"} |-> Instance("TextFileHandler")] }

MarkdownFile == [originalname |-> "d.md", mimetype |-> "text/markdown"]

NextRegistry ==
  \/ CreateRagDataIngestor(DefaultOptions)
  \/ \E registry \in Registering(Registrations \cup OtherRegistrations) :
       RegisterFileHandlers(registry)
  \/ Listen
  \/ \E f \in FileSet \cup {MarkdownFile}, ps \in ParamSets : Ingest(1, <<f>>, ps)
  \/ SetFileHandler(1)
  \/ HandleFile(1)
  \/ \E total \in 0..MaxPages : GetInfoDone(1, total)
  \/ Respond(1)

SpecRegistry == InitIngest /\ [][NextRegistry]_vars

\* The ingestor constructed with any chunk size up to MaxChunkSize and any overlap up to
\* one more, or none, then one ingest call of a text file up to its chunks.
ChunkingOptionSets ==
  { ChunkingOptions(chunkSize, overlap) :
      chunkSize \in 1..MaxChunkSize,
      overlap \in {Undefined} \cup {<<n>> : n \in 0..(MaxChunkSize + 1)} }

NextChunker ==
  \/ \E options \in ChunkingOptionSets : CreateRagDataIngestor(options)
  \/ RegisterFileHandlers(StartupRegistry)
  \/ Listen
  \/ \E f \in {g \in FileSet : g.mimetype = "text/plain"} : Ingest(1, <<f>>, EmptyParams)
  \/ SetFileHandler(1)
  \/ HandleFile(1)
  \/ \E fileContent \in Contents : TextStreamDone(1, fileContent)
  \/ LoopDocs(1)
  \/ \E pieces \in PieceLists(MaxChunks) : ChunkDone(1, pieces)
  \/ Respond(1)

SpecChunker == InitIngest /\ [][NextChunker]_vars

\* Upsert calls of the store in MaxTasks concurrent tasks, with items that share ids with
\* each other and with the entries of the collection.
StoredIds == {0, 2}

StoredCollection == [id \in StoredIds |-> OldEntry]

UpsertItemSets ==
  { [id |-> id, text |-> text, metadata |-> [source |-> text], embedding |-> Vec(text)] :
      id \in 0..1, text \in {"x", "y"} }

NextStore ==
  \/ CreateRagDataIngestor(DefaultOptions)
  \/ RegisterFileHandlers(StartupRegistry)
  \/ Listen
  \/ \E t \in Tasks : \E items \in {<<a>> : a \in UpsertItemSets} \cup
                              {<<a, b>> : a, b \in UpsertItemSets} :
       Upsert(t, items)
  \/ \E t \in Tasks : GetOrCreateCollectionDone(t)
  \/ \E t \in Tasks : CollectionUpsertDone(t)
  \/ \E t \in Tasks : Respond(t)

SpecStore == Start(MaxCalls, {StoredCollection}) /\ [][NextStore]_vars

\* One call of search on its own, over an empty collection or over one whose
\* entries differ in document and metadata; the database may answer with nulls.
SearchCollection ==
  [id \in 0..(MaxTopK - 1) |->
     [embedding |-> Vec("old"), document |-> PieceNames[id + 1], metadata |-> [chunk |-> id]]]

NextSearch ==
  \/ CreateRagDataIngestor(DefaultOptions)
  \/ RegisterFileHandlers(StartupRegistry)
  \/ Listen
  \/ \E topK \in 1..MaxTopK : Search(1, Vec("q"), topK)
  \/ GetOrCreateCollectionDone(1)
  \/ \E res \in NullableQueryResponses(collection, req[1].topK, MaxDist) :
       CollectionQueryDone(1, res)
  \/ Respond(1)

SpecSearch == Start(1, {<<>>, SearchCollection}) /\ [][NextSearch]_vars

\* Calls of generateResponse on their own: without sources, with an empty list of sources
\* and with up to MaxTopK sources, one of them with an empty content.
SourceSet == { [id |-> 0, content |-> content, metadata |-> EmptyMeta, score |-> 0] :
                 content \in {"", "x", "old"} }

PromptContexts ==
  { [question |-> question] : question \in Questions }
    \cup { [question |-> question, sources |-> sources] :
              question \in Questions, sources \in SeqsUpTo(SourceSet, MaxTopK) }

NextGenerator ==
  \/ CreateRagDataIngestor(DefaultOptions)
  \/ RegisterFileHandlers(StartupRegistry)
  \/ Listen
  \/ \E t \in Tasks, ctx \in PromptContexts : GenerateResponse(t, ctx)
  \/ \E t \in Tasks, text \in Answers : GenerateResponseDone(t, text)
  \/ \E t \in Tasks : Respond(t)

SpecGenerator == Start(MaxCalls, {<<>>}) /\ [][NextGenerator]_vars

\* One ingest call of a text file that holds any text of up to MaxText characters: a
\* digit, a letter, a blank, a line break, a period and a dash.
TextAlphabet == {"1", "a", " ", NL, ".", "-"}

RawTexts == SeqsUpTo(TextAlphabet, MaxText)

NextText ==
  \/ CreateRagDataIngestor(DefaultOptions)
  \/ RegisterFileHandlers(StartupRegistry)
  \/ Listen
  \/ \E f \in {g \in FileSet : g.mimetype = "text/plain"} : Ingest(1, <<f>>, EmptyParams)
  \/ SetFileHandler(1)
  \/ HandleFile(1)
  \/ \E fileContent \in RawTexts : TextStreamDone(1, fileContent)
  \/ Respond(1)

SpecText == InitIngest /\ [][NextText]_vars

\* ---------------------------------------------------------------- properties
Calls(t) == [i \in 1..Len(log[t]) |-> log[t][i].call]

Count(t, call) == Cardinality({i \in 1..Len(log[t]) : log[t][i].call = call})

CountFor(t, call, f) ==
  Cardinality({i \in 1..Len(log[t]) : log[t][i].call = call /\ log[t][i].file = f})

\* C1: ingest called with an empty file list fails with an error, and on that path no
\* handler is resolved, nothing is extracted or chunked, no parser is opened, and neither
\* the embedding provider nor the vector store (getCollection, upsert) is called.
C1_EmptyListFailsUntouched ==
  \A t \in Tasks :
    (op[t] = "ingest" /\ files[t] = <<>>) =>
      /\ pc[t] = "failed"
      /\ err[t] = "No files provided for ingestion"
      /\ log[t] = <<>>
      /\ allChunks[t] = <<>>
      /\ parsers[t].opened = 0
      /\ fileHandler = "unset"
      /\ createCalls = 0
      /\ cache = [s \in Stores |-> FALSE]
      /\ collection \in InitialCollections

C1_Witness ==
  \E t \in Tasks : op[t] = "ingest" /\ files[t] = <<>> /\ pc[t] = "failed"

\* C2: an ingest call over a non-empty file list that accumulated no chunk at all performs
\* no embedding call and no upsert call.
C2_NoCallsOnZeroChunks ==
  \A t \in Tasks :
    (op[t] = "ingest" /\ files[t] # <<>> /\ allChunks[t] = <<>>) =>
      (Count(t, "embed") = 0 /\ Count(t, "upsert") = 0)

\* the position of an external call in the order (file, stage, unit); embed and upsert
\* come after the last file
Stage(call) ==
  IF call = "setFileHandler" THEN 0
  ELSE IF call = "handleFile" THEN 1
  ELSE IF call = "getText" THEN 2
  ELSE 3

Before(a, b) ==
  \/ a.file < b.file
  \/ a.file = b.file /\ Stage(a.call) < Stage(b.call)
  \/ a.file = b.file /\ Stage(a.call) = Stage(b.call) /\ a.unit < b.unit

\* C3: in every ingest call the external calls are issued file after file in input order
\* (resolve, extract, then chunk unit after unit), none is repeated, embed is called only
\* after the last file has been chunked and upsert only after embed returned; a successful
\* call has resolved and extracted every file once and called embed and upsert once each,
\* as its last two calls.
C3_OneBatchInOrder ==
  \A t \in Tasks :
    op[t] = "ingest" =>
      /\ \A i, j \in 1..Len(log[t]) : i < j => Before(log[t][i], log[t][j])
      /\ Count(t, "embed") = 1 =>
           /\ fi[t] = Len(files[t])
           /\ di[t] = Len(docs[t]) + 1
           /\ pc[t] \notin {"setFileHandler", "handleFile", "loopDocs", "await_chunk",
                            "await_stream", "await_getInfo", "await_getText",
                            "await_processText"}
      /\ Count(t, "upsert") = 1 =>
           pc[t] \in {"await_getOrCreateCollection", "await_collection_upsert",
                      "done", "failed"}
      /\ pc[t] = "done" =>
           /\ Count(t, "embed") = 1
           /\ Count(t, "upsert") = 1
           /\ SubSeq(Calls(t), Len(log[t]) - 1, Len(log[t])) = <<"embed", "upsert">>
           /\ \A f \in 1..Len(files[t]) :
                /\ CountFor(t, "setFileHandler", f) = 1
                /\ CountFor(t, "handleFile", f) = 1

C3_Witness ==
  \E t \in Tasks :
    /\ op[t] = "ingest"
    /\ pc[t] = "done"
    /\ Len(files[t]) >= 2
    /\ Count(t, "chunk") >= 3
    /\ Len(allChunks[t]) >= 3

\* the texts that the call sent to embed
EmbedTexts(t) ==
  LET i == CHOOSE i \in 1..Len(log[t]) : log[t][i].call = "embed" IN log[t][i].texts

\* C4: the i-th entry of the request sent to the database by upsert carries the id, the
\* text and the metadata of the i-th accumulated chunk and the i-th vector returned by
\* embed (nothing where embed returned fewer vectors), which is the vector of the i-th
\* text sent to embed; chunks are accumulated in the order of their creation, and inside
\* one unit in chunk order.
C4_PositionalAlignment ==
  \A t \in Tasks :
    (op[t] = "ingest" /\ Count(t, "upsert") = 1) =>
      LET request == UpsertRequest(upsertItems[t])
          n == Len(allChunks[t])
      IN  /\ Len(request.ids) = n
          /\ Len(request.documents) = n
          /\ Len(request.metadatas) = n
          /\ Len(request.embeddings) = n
          /\ Len(EmbedTexts(t)) = n
          /\ \A i \in 1..n :
               /\ request.ids[i] = allChunks[t][i].id
               /\ request.documents[i] = allChunks[t][i].content
               /\ request.metadatas[i] = allChunks[t][i].metadata
               /\ EmbedTexts(t)[i] = allChunks[t][i].content
               /\ request.embeddings[i] =
                    (IF i <= Len(embeddings[t]) THEN embeddings[t][i] ELSE <<>>)
               /\ i <= Len(embeddings[t]) => embeddings[t][i] = Vec(EmbedTexts(t)[i])
          /\ \A i \in 1..(n - 1) :
               /\ allChunks[t][i].id < allChunks[t][i + 1].id
               /\ \/ /\ allChunks[t][i + 1].metadata.chunk = allChunks[t][i].metadata.chunk + 1
                     /\ allChunks[t][i + 1].metadata.totalChunks
                          = allChunks[t][i].metadata.totalChunks
                  \/ /\ allChunks[t][i + 1].metadata.chunk = 0
                     /\ allChunks[t][i].metadata.chunk + 1
                          = allChunks[t][i].metadata.totalChunks

C4_Witness ==
  \E t \in Tasks :
    /\ op[t] = "ingest"
    /\ pc[t] = "done"
    /\ Len(upsertItems[t]) >= 3
    /\ Len(embeddings[t]) = Len(upsertItems[t])
    /\ upsertItems[t][1].text # upsertItems[t][2].text
    /\ upsertItems[t][1].metadata.source # upsertItems[t][3].metadata.source

\* the errors of handler resolution, extraction and chunking
FileStageErrors ==
  {"No file handler found for MIME type", "File handler not set", "stream error",
   "getInfo failed", "getText failed", "chunk failed"}

\* C5: when handler resolution, extraction or chunking fails for a file at any position,
\* the ingest call fails without calling embed or upsert, and the collection holds no
\* chunk of the batch; a call reaches upsert only if every file of it had a registered
\* content type.
C5_AllOrNothing ==
  \A t \in Tasks :
    op[t] = "ingest" =>
      /\ (\E i \in 1..Len(log[t]) :
            /\ log[t][i].call = "setFileHandler"
            /\ files[t][log[t][i].file].mimetype \notin DOMAIN HANDLER_REGISTRY)
           => (pc[t] = "failed" /\ err[t] = "No file handler found for MIME type")
      /\ (pc[t] = "failed" /\ err[t] \in FileStageErrors) =>
           /\ Count(t, "embed") = 0
           /\ Count(t, "upsert") = 0
           /\ upsertItems[t] = <<>>
           /\ collection \in InitialCollections
           /\ \A i \in 1..Len(allChunks[t]) : allChunks[t][i].id \notin DOMAIN collection
      /\ Count(t, "upsert") = 1 =>
           \A f \in 1..Len(files[t]) : files[t][f].mimetype \in DOMAIN HANDLER_REGISTRY

C5_Witness ==
  \E t \in Tasks :
    /\ op[t] = "ingest"
    /\ pc[t] = "failed"
    /\ err[t] \in FileStageErrors
    /\ fi[t] = 2
    /\ allChunks[t] # <<>>

\* search has returned to query
SearchReturned(t) == op[t] = "query" /\ pc[t] \in {"await_generateResponse", "done"}

\* the threshold of the call, 0 when none was given
ThresholdOf(t) == IF req[t].threshold = <<>> THEN 0 ELSE req[t].threshold[1]

\* the results at or above the threshold, from position i on, in the order of rs
RECURSIVE Surviving(_, _, _)
Surviving(rs, threshold, i) ==
  IF i > Len(rs) THEN <<>>
  ELSE IF rs[i].score >= threshold THEN <<rs[i]>> \o Surviving(rs, threshold, i + 1)
  ELSE Surviving(rs, threshold, i + 1)

\* C6: when search returned and no result has a score at or above the threshold (also when
\* there is no result), query returns the empty string as a normal result and has not
\* called the generator.
C6_EmptyAnswerWithoutGenerator ==
  \A t \in Tasks :
    (SearchReturned(t) /\ \A i \in 1..Len(results[t]) : results[t][i].score < ThresholdOf(t)) =>
      /\ pc[t] = "done"
      /\ answer[t] = ""
      /\ err[t] = ""
      /\ Count(t, "generateResponse") = 0
      /\ promptCtx[t] = <<>>

C6_Witness ==
  \E t \in Tasks :
    /\ SearchReturned(t)
    /\ Len(results[t]) = 2
    /\ \A i \in 1..Len(results[t]) : results[t][i].score < ThresholdOf(t)
    /\ pc[t] = "done"

\* C7: when at least one result has a score at or above the threshold, query calls the
\* generator exactly once, with the query text as question and with exactly those results
\* as sources, in the order search returned them, and returns the generator's answer.
C7_SourcesAreSurvivorsInOrder ==
  \A t \in Tasks :
    (SearchReturned(t) /\ \E i \in 1..Len(results[t]) : results[t][i].score >= ThresholdOf(t)) =>
      /\ Count(t, "generateResponse") = 1
      /\ promptCtx[t] # <<>>
      /\ promptCtx[t].question = req[t].query
      /\ promptCtx[t].sources = Surviving(results[t], ThresholdOf(t), 1)
      /\ pc[t] = "done" => answer[t] = response[t]

C7_Witness ==
  \E t \in Tasks :
    /\ SearchReturned(t)
    /\ pc[t] = "done"
    /\ answer[t] = "ans"
    /\ Len(results[t]) = 2
    /\ Len(promptCtx[t].sources) = 1

\* C8: search returns the best match first; whenever the threshold filter keeps the result
\* at position j it keeps every better match at a position i < j.
C8_BetterMatchKept ==
  \A t \in Tasks :
    SearchReturned(t) =>
      \A i, j \in 1..Len(results[t]) :
        (i < j /\ results[t][j].score >= ThresholdOf(t)) => results[t][i].score >= ThresholdOf(t)

\* handleFile of a PDF handler is running in the call
InPdfHandler(t) == pc[t] \in {"await_getInfo", "await_getText", "await_processText"}

\* C9: whenever handleFile of a PDF handler is not running, on success and after a failure
\* of getInfo or getText, every parser the call opened has been destroyed exactly once.
C9_ParserReleased ==
  \A t \in Tasks : ~InPdfHandler(t) => parsers[t].destroyed = parsers[t].opened

\* C10: getOrCreateCollection is issued at most once for the one collection name of the
\* process, over any interleaving of upsert and search calls.
C10_OneCreationRoundTrip == createCalls <= 1

\* the handler that extracted file f of the call
HandledBy(t, f) ==
  LET i == CHOOSE i \in 1..Len(log[t]) : log[t][i].call = "handleFile" /\ log[t][i].file = f
  IN  log[t][i].handler

\* the per-page handler has returned the units of the current file to ingest
PagesReturned(t) ==
  /\ op[t] = "ingest"
  /\ pc[t] \in {"loopDocs", "await_chunk"}
  /\ HandledBy(t, fi[t]) = "PdfPageFileHandler"

\* the getText requests of the call for file f, in the order they were issued
GetTextRequests(t, f) == SelectSeq(log[t], LAMBDA e : e.call = "getText" /\ e.file = f)

\* C11: when the parser reported N pages (N >= 0), the per-page handler returns N units;
\* unit k holds the processed text of page k with metadata page = k and totalPages = N,
\* and getText was requested once per page, for the pages 1..N in this order.
C11_OneUnitPerPage ==
  \A t \in Tasks :
    PagesReturned(t) =>
      LET N == pdf[t].total
          requests == GetTextRequests(t, fi[t])
      IN  /\ Len(docs[t]) = N
          /\ \A k \in 1..N :
               docs[t][k] = [content |-> processText(PageText(k)),
                             metadata |-> [page |-> k, totalPages |-> N]]
          /\ Len(requests) = N
          /\ \A k \in 1..N : requests[k].unit = k

C11_Witness ==
  \E t \in Tasks :
    /\ PagesReturned(t)
    /\ pdf[t].total = MaxPages
    /\ Len(docs[t]) = MaxPages
    /\ docs[t][1].content # docs[t][MaxPages].content

\* the handler the registry gives for file f of the call: the registered instance, or
\* what the registered factory returns for the parameters of the call
Registered(t, f) ==
  LET entry == HANDLER_REGISTRY[files[t][f].mimetype] IN
  IF entry.factory
    THEN (IF entry.handler = "createNoopHandler" THEN "NoopFileHandler"
          ELSE IF params[t] = EmptyParams THEN "PdfPageFileHandler" ELSE "PdfFileHandler")
    ELSE entry.handler

\* the position in the log of the call's event for file f
EventAt(t, call, f) ==
  CHOOSE i \in 1..Len(log[t]) : log[t][i].call = call /\ log[t][i].file = f

\* C12: setFileHandler fails with the 'no handler' error for a content type that is not
\* in the registry; for a registered content type it selects the registered instance, or
\* what the registered factory returns for the resolution parameters of the call, and the
\* handleFile that follows runs that handler.
C12_ResolveByContentType ==
  \A t \in Tasks :
    op[t] = "ingest" =>
      \A f \in 1..Len(files[t]) :
        CountFor(t, "setFileHandler", f) = 1 =>
          IF files[t][f].mimetype \notin DOMAIN HANDLER_REGISTRY
            THEN /\ pc[t] = "failed"
                 /\ err[t] = "No file handler found for MIME type"
                 /\ CountFor(t, "handleFile", f) = 0
                 /\ Len(files[t]) = 1 => fileHandler = "unset"
            ELSE /\ f = fi[t] =>
                      /\ err[t] # "No file handler found for MIME type"
                      /\ fileHandler = Registered(t, f)
                 /\ CountFor(t, "handleFile", f) = 1 =>
                      /\ log[t][EventAt(t, "handleFile", f)].handler = Registered(t, f)
                      /\ (f = fi[t] /\ pc[t] = "await_stream") =>
                           Registered(t, f) = "TextFileHandler"
                      /\ (f = fi[t] /\ InPdfHandler(t)) => pdf[t].handler = Registered(t, f)
                      /\ (f = fi[t] /\ Registered(t, f) = "NoopFileHandler") =>
                           (pc[t] = "loopDocs" /\ docs[t] = <<[content |-> <<>>,
                                                               metadata |-> EmptyMeta]>>)

C12_Witness ==
  \E t \in Tasks :
    /\ op[t] = "ingest"
    /\ files[t][1].mimetype \in DOMAIN HANDLER_REGISTRY
    /\ HANDLER_REGISTRY[files[t][1].mimetype].factory
    /\ params[t] # EmptyParams
    /\ CountFor(t, "handleFile", 1) = 1
    /\ pdf[t].handler = "PdfFileHandler"

\* C13: every registerFileHandlers call leaves the registry mapping each content type the
\* call mentions to the entry the call gives, and every other content type to the entry it
\* had before (none if it had none); hence after any sequence of calls each content type
\* has the entry of the most recent call that mentioned it.
C13_MergeLastWriterWins ==
  [][\A registry \in {StartupRegistry} \cup Registrations \cup OtherRegistrations :
       RegisterFileHandlers(registry) =>
         /\ DOMAIN HANDLER_REGISTRY' = DOMAIN HANDLER_REGISTRY \cup DOMAIN registry
         /\ \A m \in DOMAIN registry : HANDLER_REGISTRY'[m] = registry[m]
         /\ \A m \in DOMAIN HANDLER_REGISTRY \ DOMAIN registry :
              HANDLER_REGISTRY'[m] = HANDLER_REGISTRY[m]]_vars

C13_Witness ==
  /\ DOMAIN HANDLER_REGISTRY = {"text/plain", "application/pdf", "image/png"}
  /\ HANDLER_REGISTRY["text/plain"] = Instance("NoopFileHandler")
  /\ HANDLER_REGISTRY["image/png"] = Factory("createNoopHandler")
  /\ HANDLER_REGISTRY["application/pdf"] = Instance("PdfFileHandler")

\* C14: the construction of the chunker fails exactly when an overlap is given and is at
\* least the chunk size, and succeeds when the overlap is smaller or omitted; after a
\* failed construction nothing runs, so no chunk call is ever made.
C14_OverlapBelowChunkSize ==
  chunker.status # "none" =>
    LET options == chunker.options IN
    /\ chunker.status \in {"constructed", "failed"}
    /\ (options.overlap # <<>> /\ options.overlap[1] >= options.chunkSize)
         => chunker.status = "failed"
    /\ (options.overlap = <<>> \/ options.overlap[1] < options.chunkSize)
         => chunker.status = "constructed"
    /\ chunker.status = "failed" =>
         /\ ~started
         /\ nextId = 1
         /\ \A t \in Tasks : pc[t] = "idle" /\ log[t] = <<>>

C14_Witness ==
  /\ chunker.status = "failed"
  /\ chunker.options.overlap = <<chunker.options.chunkSize>>

\* the ids of the chunks that exist: those accumulated by the running calls and those in
\* the collection
ChunkIds ==
  UNION {{allChunks[t][i].id : i \in 1..Len(allChunks[t])} : t \in Tasks} \cup DOMAIN collection

\* C15: a chunk call that returns n chunks gives the k-th of them (k = 0..n-1, in the
\* order of the pieces) the metadata the caller supplied, with chunk = k and
\* totalChunks = n added to it, and an id that no other chunk has: none of the same call
\* and none that existed before.
C15_ChunkMetadataAndFreshIds ==
  [][\A t \in Tasks :
       (pc[t] = "await_chunk" /\ pc'[t] = "loopDocs") =>
         LET before == Len(allChunks[t])
             n == Len(allChunks'[t]) - before
             new == [k \in 1..n |-> allChunks'[t][before + k]]
             file == files[t][fi[t]]
             given == docs[t][di[t]].metadata
             supplied == {"source", "mimeType"} \cup DOMAIN given
         IN  /\ n >= 0
             /\ SubSeq(allChunks'[t], 1, before) = allChunks[t]
             /\ \A k \in 1..n :
                  /\ DOMAIN new[k].metadata = supplied \cup {"chunk", "totalChunks"}
                  /\ new[k].metadata["chunk"] = k - 1
                  /\ new[k].metadata["totalChunks"] = n
                  /\ \A key \in DOMAIN given \ {"chunk", "totalChunks"} :
                       new[k].metadata[key] = given[key]
                  /\ "source" \notin DOMAIN given =>
                       new[k].metadata["source"] = file.originalname
                  /\ "mimeType" \notin DOMAIN given =>
                       new[k].metadata["mimeType"] = file.mimetype
                  /\ new[k].id \notin ChunkIds
                  /\ \A j \in 1..n : j # k => new[j].id # new[k].id]_vars

C15_Witness ==
  \E t \in Tasks :
    /\ Len(allChunks[t]) >= 3
    /\ allChunks[t][Len(allChunks[t])].metadata["chunk"] = 1
    /\ allChunks[t][Len(allChunks[t])].metadata["totalChunks"] = 2
    /\ "page" \in DOMAIN allChunks[t][Len(allChunks[t])].metadata

\* embed has returned to the ingest call
EmbedReturned(t) == op[t] = "ingest" /\ Count(t, "upsert") = 1

\* C17: when embed returns, it returns one vector per text it was given, in the order of
\* the texts; a provider response with fewer embeddings than texts makes embed fail.
C17_OneVectorPerText ==
  \A t \in Tasks :
    EmbedReturned(t) =>
      /\ Len(embeddings[t]) = Len(EmbedTexts(t))
      /\ \A i \in 1..Len(embeddings[t]) : embeddings[t][i] = Vec(EmbedTexts(t)[i])

\* the position of the last item with the id among the items
LastWith(items, id) ==
  CHOOSE i \in 1..Len(items) :
    items[i].id = id /\ \A j \in (i + 1)..Len(items) : items[j].id # id

\* C18: every completed upsert call leaves the collection with one entry for each id of
\* its items, holding the vector, the text and the metadata of the last item with that id,
\* and leaves the entries of all other ids as they were; so the entry of an id is the one
\* of the upsert that completed last, whatever the interleaving.
C18_UpsertReplacesById ==
  [][\A t \in Tasks :
       (pc[t] = "await_collection_upsert" /\ pc'[t] = "done") =>
         LET items == upsertItems[t]
             ids == {items[i].id : i \in 1..Len(items)}
         IN  /\ DOMAIN collection' = DOMAIN collection \cup ids
             /\ \A id \in ids :
                  LET item == items[LastWith(items, id)] IN
                  collection'[id] = [embedding |-> item.embedding,
                                     document |-> item.text,
                                     metadata |-> item.metadata]
             /\ \A id \in DOMAIN collection \ ids : collection'[id] = collection[id]]_vars

C18_Witness ==
  \E t \in Tasks :
    /\ op[t] = "upsert"
    /\ pc[t] = "done"
    /\ Len(upsertItems[t]) = 2
    /\ upsertItems[t][1].id = 0
    /\ DOMAIN collection = StoredIds \cup {1}
    /\ collection[0].document = "x"
    /\ collection[1].document = "y"
    /\ collection[2] = OldEntry

\* C19: processText is idempotent: the text a handler got from processText is left as it
\* is by a second processText; and processText of the empty text is the empty text.
C19_ProcessTextIdempotent ==
  /\ processText(<<>>) = <<>>
  /\ \A t \in Tasks :
       (op[t] = "ingest" /\ pc[t] = "loopDocs") =>
         \A d \in 1..Len(docs[t]) : processText(docs[t][d].content) = docs[t][d].content

\* C20: the user message handed to the chat model. Without sources, or with an empty list
\* of sources, it holds the question and the request to say politely that no relevant
\* information is there, and no context block. With sources it is the context block, which
\* lists every source as "[i] text" numbered from 1 in the order of the sources, then the
\* question, then the cue "Answer:".
UserMessage(t) == prompt[t].messages[Len(prompt[t].messages)]

HasSources(t) == "sources" \in DOMAIN promptCtx[t] /\ Len(promptCtx[t].sources) > 0

Pieces(text) == {text[i] : i \in 1..Len(text)}

C20_UserMessage ==
  \A t \in Tasks :
    pc[t] = "await_generateResponse" =>
      LET content == UserMessage(t).content
          sources == promptCtx[t].sources
          n == Len(sources)
      IN  /\ UserMessage(t).role = "user"
          /\ ~HasSources(t) =>
                /\ Pieces(content) \cap {"Context: ", "[", "\n\nAnswer:"} = {}
                /\ content = <<"Question: ", promptCtx[t].question, NoInformation>>
          /\ HasSources(t) =>
                /\ Len(content) = 5 * n + 3
                /\ content[1] = "Context: "
                /\ \A i \in 1..n :
                     SubSeq(content, 5 * i - 3, 5 * i) = <<"[", ToString(i), "] ", sources[i].content>>
                /\ \A i \in 1..(n - 1) : content[5 * i + 1] = "\n\n"
                /\ SubSeq(content, 5 * n + 1, 5 * n + 3)
                     = <<"\n\nQuestion: ", promptCtx[t].question, "\n\nAnswer:">>

\* a call without sources and a call with MaxTopK sources of different contents both wait
\* for the chat model
C20_Witness ==
  \E t, u \in Tasks :
    /\ op[t] = "generate" /\ pc[t] = "await_generateResponse"
    /\ HasSources(t) /\ Len(promptCtx[t].sources) = MaxTopK
    /\ promptCtx[t].sources[1].content # promptCtx[t].sources[MaxTopK].content
    /\ op[u] = "generate" /\ pc[u] = "await_generateResponse"
    /\ "sources" \notin DOMAIN promptCtx[u]

\* C21: a query without a threshold, or with the threshold 0, filters nothing: every result
\* search returned, whatever its score, is a source handed to the generator, in the order
\* of search; query returns the empty answer without calling the generator only when
\* search returned no result.
NoThreshold(t) == req[t].threshold \in {<<>>, <<0>>}

C21_NoThresholdNoFiltering ==
  \A t \in Tasks :
    (SearchReturned(t) /\ NoThreshold(t)) =>
      /\ Len(results[t]) = 0 <=> Count(t, "generateResponse") = 0
      /\ Len(results[t]) = 0 => (pc[t] = "done" /\ answer[t] = "" /\ err[t] = "")
      /\ Len(results[t]) > 0 => promptCtx[t].sources = results[t]

\* a query without a threshold got two results, the second with the largest distance, and
\* waits for the generator
C21_Witness ==
  \E t \in Tasks :
    /\ SearchReturned(t)
    /\ req[t].threshold = <<>>
    /\ pc[t] = "await_generateResponse"
    /\ Len(results[t]) = 2
    /\ results[t][1].score = 0
    /\ results[t][2].score = MaxDist

\* C22: search returns one result per document of the first row of the database's answer,
\* in the order of the row and at most topK of them; result k has the id, the document
\* (the empty text for null), the metadata (the empty object for null) and the distance
\* (0 for null) found at index k of the four arrays; on an empty collection search returns
\* the empty list and does not fail.
SearchAnswered(t) ==
  /\ op[t] \in {"search", "query"}
  /\ pc[t] \in {"await_generateResponse", "done"}
  /\ rows[t] # <<>>

C22_SearchMapsFirstRow ==
  \A t \in Tasks :
    /\ SearchAnswered(t) =>
         /\ Len(results[t]) = Len(rows[t].documents[1])
         /\ Len(results[t]) <= req[t].topK
         /\ \A k \in 1..Len(results[t]) :
              /\ results[t][k].id = rows[t].ids[1][k]
              /\ results[t][k].content =
                   (IF rows[t].documents[1][k] = Null THEN "" ELSE rows[t].documents[1][k][1])
              /\ results[t][k].metadata =
                   (IF rows[t].metadatas[1][k] = Null THEN EmptyMeta ELSE rows[t].metadatas[1][k][1])
              /\ results[t][k].score =
                   (IF rows[t].distances[1][k] = Null THEN 0 ELSE rows[t].distances[1][k][1])
    /\ (op[t] = "search" /\ pc[t] = "done" /\ collection = <<>>) => results[t] = <<>>

\* a search with topK = MaxTopK returned MaxTopK results with different distances, the
\* first from a null document with a metadata, the last from a document
C22_Witness ==
  \E t \in Tasks :
    /\ op[t] = "search" /\ pc[t] = "done"
    /\ Len(results[t]) = MaxTopK
    /\ rows[t].documents[1][1] = Null
    /\ rows[t].metadatas[1][1] # Null
    /\ rows[t].documents[1][MaxTopK] # Null
    /\ results[t][1].score < results[t][MaxTopK].score

\* C23: with ingest calls running concurrently on the one ingestor and its one context,
\* every file is extracted by the handler registered for that file's own content type,
\* also while the context's handler field already holds the handler another call selected.
ExtractedBy(t) ==
  { <<log[t][i].file, log[t][i].handler>> :
      i \in {j \in 1..Len(log[t]) : log[t][j].call = "handleFile"} }

InPdfExtraction(t) == pc[t] \in {"await_getInfo", "await_getText", "await_processText"}

C23_OwnHandlerUnderConcurrency ==
  \A t \in Tasks :
    op[t] = "ingest" =>
      /\ \A e \in ExtractedBy(t) :
           e[2] = Resolve(HANDLER_REGISTRY[files[t][e[1]].mimetype], params[t])
      /\ InPdfExtraction(t) =>
           pdf[t].handler = Resolve(HANDLER_REGISTRY[files[t][fi[t]].mimetype], params[t])

\* two ingest calls are extracting at the same time, one a text file and one a PDF file,
\* and the context's handler field holds the handler of the call that came second
C23_Witness ==
  \E t, u \in Tasks :
    /\ op[t] = "ingest" /\ pc[t] = "await_stream"
    /\ op[u] = "ingest" /\ pc[u] = "await_getInfo"
    /\ ExtractedBy(t) = {<<1, "TextFileHandler">>}
    /\ fileHandler = pdf[u].handler
    /\ fileHandler # "TextFileHandler"

\* C24: a failed creation of the collection is surfaced and never cached. When
\* getOrCreateCollection fails, the upsert or search that waited for it fails with that
\* error and the cache of its store stays empty; an upsert or search that starts on an
\* empty cache attempts the creation; one that starts on a filled cache uses the cached
\* collection and attempts no creation.
StoreCalls == {"upsert", "search"}

CreationFails(t) == pc[t] = "await_getOrCreateCollection" /\ pc'[t] = "failed"

StoreCallStarts(t) == pc[t] = "idle" /\ op'[t] \in StoreCalls

C24_FailedCreationNotCached ==
  [][\A t \in Tasks :
       /\ CreationFails(t) =>
            /\ err'[t] = "getOrCreateCollection failed"
            /\ ~cache'[StoreOf(op[t])]
       /\ StoreCallStarts(t) =>
            IF cache[StoreOf(op'[t])]
              THEN createCalls' = createCalls /\ pc'[t] # "await_getOrCreateCollection"
              ELSE createCalls' = createCalls + 1 /\ pc'[t] = "await_getOrCreateCollection"]_vars

\* C25: every chunk ingest hands to upsert has a metadata whose source is the name of the
\* file it came from and whose mimeType is that file's declared content type, next to the
\* unit's metadata and the keys chunk and totalChunks; a text file declared as text/plain
\* that gives one chunk is stored with its source, text/plain, chunk 0 and totalChunks 1.
C25_ChunkMetadataOfFile ==
  \A t \in Tasks :
    op[t] = "ingest" =>
      \A i \in 1..Len(upsertItems[t]) :
        LET metadata == upsertItems[t][i].metadata IN
          /\ {"source", "mimeType", "chunk", "totalChunks"} \subseteq DOMAIN metadata
          /\ \E f \in 1..Len(files[t]) :
               /\ metadata.source = files[t][f].originalname
               /\ metadata.mimeType = files[t][f].mimetype

====
